---------------------------- MODULE Spec2Model ----------------------------
(***************************************************************************)
(* A model of the ID reconciliation and reference rewriting code of the    *)
(* migration tools: dependency_question_id_updater.py and                  *)
(* form_and_question_id_updater.py.                                        *)
(*                                                                         *)
(* Strings are sequences of one-character strings, JSON values are tagged  *)
(* records, and Python dictionaries are functions (maps) or, where the     *)
(* insertion order matters, sequences of entries.                          *)
(***************************************************************************)
EXTENDS Integers, Sequences, FiniteSets, TLC

(***************************************************************************)
(* Characters and strings: str.isdigit, int(), str().                      *)
(***************************************************************************)
DigitChars == <<"0", "1", "2", "3", "4", "5", "6", "7", "8", "9">>

IsDigitChar(c) == \E k \in 1..10 : DigitChars[k] = c

DigitVal(c) == (CHOOSE k \in 1..10 : DigitChars[k] = c) - 1

\* str.isdigit(): non-empty and every character a digit.
isdigit(s) == Len(s) > 0 /\ \A i \in 1..Len(s) : IsDigitChar(s[i])

\* int(s) of a digit string: leading zeros are accepted and dropped.
RECURSIVE int(_)
int(s) ==
  IF Len(s) = 0 THEN 0
  ELSE 10 * int(SubSeq(s, 1, Len(s) - 1)) + DigitVal(s[Len(s)])

\* str(n) of an integer.
RECURSIVE str(_)
str(n) ==
  IF n < 0 THEN <<"-">> \o str(0 - n)
  ELSE IF n < 10 THEN <<DigitChars[n + 1]>>
  ELSE str(n \div 10) \o <<DigitChars[(n % 10) + 1]>>

(***************************************************************************)
(* JSON values as json.loads returns them.                                 *)
(***************************************************************************)
JInt(n) == [t |-> "int", n |-> n]
JBool(b) == [t |-> "bool", b |-> b]
JStr(s) == [t |-> "str", s |-> s]
JList(items) == [t |-> "list", items |-> items]
JDict(entries) == [t |-> "dict", entries |-> entries]
JNull == [t |-> "null"]

\* Python's bool is an int: True == 1 and False == 0.
BoolInt(b) == IF b THEN 1 ELSE 0

IsNum(v) == v.t \in {"int", "bool"}

NumVal(v) == IF v.t = "int" THEN v.n ELSE BoolInt(v.b)

\* dict lookup on a sequence of entries <<[k, v], ...>> with distinct keys.
HasKey(entries, k) == \E i \in 1..Len(entries) : entries[i].k = k

Lookup(entries, k) == entries[CHOOSE i \in 1..Len(entries) : entries[i].k = k].v

\* Python's == on decoded JSON values: numbers (bools included) compare by
\* value, lists by position, dicts as maps whatever the insertion order.
RECURSIVE PyEq(_, _)
PyEq(a, b) ==
  IF IsNum(a) /\ IsNum(b) THEN NumVal(a) = NumVal(b)
  ELSE IF a.t # b.t THEN FALSE
  ELSE IF a.t = "str" THEN a.s = b.s
  ELSE IF a.t = "list" THEN
    /\ Len(a.items) = Len(b.items)
    /\ \A i \in 1..Len(a.items) : PyEq(a.items[i], b.items[i])
  ELSE IF a.t = "dict" THEN
    /\ Len(a.entries) = Len(b.entries)
    /\ \A i \in 1..Len(a.entries) :
         /\ HasKey(b.entries, a.entries[i].k)
         /\ PyEq(a.entries[i].v, Lookup(b.entries, a.entries[i].k))
  ELSE TRUE

\* An assignment that adds an entry even when the key is there already.
SetKeyAppended(entries, k, v) == Append(entries, [k |-> k, v |-> v])

\* dict[key] = value on a sequence of entries: overwrite in place or append.
SetKey(entries, k, v) ==
  IF HasKey(entries, k)
  THEN [i \in 1..Len(entries) |->
          IF entries[i].k = k THEN [k |-> k, v |-> v] ELSE entries[i]]
  ELSE Append(entries, [k |-> k, v |-> v])

\* Counter[(old, new)] += 1.
Inc(stats, old, new) ==
  IF <<old, new>> \in DOMAIN stats
  THEN [stats EXCEPT ![<<old, new>>] = @ + 1]
  ELSE stats @@ (<<old, new>> :> 1)

EmptyMap == [x \in {} |-> 0]

(***************************************************************************)
(* dependency_question_id_updater.py: the tree rewriter.                   *)
(* An accumulator acc = [stats, missing, err] stands for the Counter and   *)
(* the set the code mutates in place, and for a raised exception.          *)
(***************************************************************************)
NoAcc == [stats |-> EmptyMap, missing |-> {}, err |-> "none"]

\* mapping.get(old_id) and what the three scalar sites do with it: count and
\* replace when mapped, record as missing when a known source ID.
Hit(acc, old, new) == [acc EXCEPT !.stats = Inc(acc.stats, old, new)]

Miss(acc, old, known_ids) ==
  IF old \in known_ids THEN [acc EXCEPT !.missing = @ \cup {old}] ELSE acc

\* A rewriter that walks the values and forgets the keys.
replace_dict_key_kept(key, mapping, known_ids, acc) == [val |-> key, acc |-> acc]

replace_dict_key(key, mapping, known_ids, acc) ==
  IF isdigit(key) THEN
    LET old_id == int(key) IN
      IF old_id \in DOMAIN mapping
      THEN [val |-> str(mapping[old_id]), acc |-> Hit(acc, old_id, mapping[old_id])]
      ELSE [val |-> key, acc |-> Miss(acc, old_id, known_ids)]
  ELSE [val |-> key, acc |-> acc]
\* A rewriter of integers that counts every integer it visits, replaced or not.
replace_numeric_int_counted(value, mapping, known_ids, acc) ==
  IF value \in DOMAIN mapping
  THEN [val |-> mapping[value], acc |-> Hit(acc, value, mapping[value])]
  ELSE [val |-> value, acc |-> Hit(acc, value, value)]

replace_numeric_int(value, mapping, known_ids, acc) ==
  IF value \in DOMAIN mapping
  THEN [val |-> mapping[value], acc |-> Hit(acc, value, mapping[value])]
  ELSE [val |-> value, acc |-> Miss(acc, value, known_ids)]

\* The least index >= from of a character of set cs in s, or 0.
FirstIn(s, from, cs) ==
  IF \E i \in from..Len(s) : s[i] \in cs
  THEN CHOOSE i \in from..Len(s) :
         s[i] \in cs /\ \A j \in from..(i - 1) : s[j] \notin cs
  ELSE 0

\* The last index of the run of digits that starts at from (from - 1 if none).
DigitsEnd(s, from) ==
  IF \E i \in from..Len(s) : ~IsDigitChar(s[i])
  THEN (CHOOSE i \in from..Len(s) :
          ~IsDigitChar(s[i]) /\ \A j \in from..(i - 1) : IsDigitChar(s[j])) - 1
  ELSE Len(s)

CharAt(s, i) == IF i \in 1..Len(s) THEN s[i] ELSE ""

\* EMBEDDED_TEMPLATE_PATTERN = (\{\{[^{}<]*<)(\d+)(>[^{}]*\}\}) matched at i:
\* [ok, a, b, e]: the digits are s[a..b] and the match ends at e.
EMBEDDED_TEMPLATE_PATTERN(s, i) ==
  LET lt == FirstIn(s, i + 2, {"{", "}", "<"})
      b  == DigitsEnd(s, lt + 1)
      cl == FirstIn(s, b + 2, {"{", "}"})
  IN  IF /\ CharAt(s, i) = "{" /\ CharAt(s, i + 1) = "{"
         /\ lt > 0 /\ s[lt] = "<"
         /\ b >= lt + 1
         /\ CharAt(s, b + 1) = ">"
         /\ cl > 0 /\ s[cl] = "}" /\ CharAt(s, cl + 1) = "}"
      THEN [ok |-> TRUE, a |-> lt + 1, b |-> b, e |-> cl + 1]
      ELSE [ok |-> FALSE, a |-> 0, b |-> 0, e |-> 0]

\* EMBEDDED_TEMPLATE_PATTERN.sub(repl, value), scanning from pos.
RECURSIVE TemplateSub(_, _, _, _, _)
TemplateSub(s, pos, mapping, known_ids, acc) ==
  IF pos > Len(s) THEN [val |-> <<>>, acc |-> acc]
  ELSE
    LET m == EMBEDDED_TEMPLATE_PATTERN(s, pos) IN
      IF ~m.ok THEN
        LET rest == TemplateSub(s, pos + 1, mapping, known_ids, acc)
        IN  [val |-> <<s[pos]>> \o rest.val, acc |-> rest.acc]
      ELSE
        LET old_id == int(SubSeq(s, m.a, m.b))
            mapped == old_id \in DOMAIN mapping
            here == IF mapped
                    THEN SubSeq(s, pos, m.a - 1) \o str(mapping[old_id])
                           \o SubSeq(s, m.b + 1, m.e)
                    ELSE SubSeq(s, pos, m.e)
            acc1 == IF mapped THEN Hit(acc, old_id, mapping[old_id])
                    ELSE Miss(acc, old_id, known_ids)
            rest == TemplateSub(s, m.e + 1, mapping, known_ids, acc1)
        IN  [val |-> here \o rest.val, acc |-> rest.acc]

replace_embedded_template_ids(value, mapping, known_ids, acc) ==
  TemplateSub(value, 1, mapping, known_ids, acc)

\* NUMERIC_PATTERN = r"(?<!\\d)(\\d+)(?!\\d)": in a raw string the doubled
\* backslashes make the pattern a literal backslash followed by one or more
\* letters d, not preceded and not followed by backslash-d.  BsD(s, i): s has
\* backslash-d at i.
BsD(s, i) == CharAt(s, i) = "\\" /\ CharAt(s, i + 1) = "d"

\* The last index of the run of letters d that starts at from.
DsEnd(s, from) ==
  IF \E i \in from..Len(s) : s[i] # "d"
  THEN (CHOOSE i \in from..Len(s) :
          s[i] # "d" /\ \A j \in from..(i - 1) : s[j] = "d") - 1
  ELSE Len(s)

\* The pattern matches at i: the greedy d+ may give back a d, after which the
\* lookahead sees a d and not a backslash; a single d needs the lookahead.
NUMERIC_PATTERN(s, i) ==
  /\ BsD(s, i)
  /\ ~(i > 2 /\ BsD(s, i - 2))
  /\ \/ DsEnd(s, i + 1) > i + 1
     \/ ~BsD(s, DsEnd(s, i + 1) + 1)

\* NUMERIC_PATTERN.sub(repl, value): repl takes int() of the matched group,
\* which starts with a backslash, so the first match raises ValueError; with no
\* match the value is returned as it is.
NumericSub(s, mapping, known_ids, acc) ==
  IF \E i \in 1..Len(s) : NUMERIC_PATTERN(s, i)
  THEN [val |-> s, acc |-> [acc EXCEPT !.err = "ValueError"]]
  ELSE [val |-> s, acc |-> acc]

replace_string_value(value, mapping, known_ids, acc) ==
  IF isdigit(value) THEN
    LET old_id == int(value) IN
      IF old_id \in DOMAIN mapping
      THEN [val |-> str(mapping[old_id]), acc |-> Hit(acc, old_id, mapping[old_id])]
      ELSE [val |-> value, acc |-> Miss(acc, old_id, known_ids)]
  ELSE
    LET updated_value == replace_embedded_template_ids(value, mapping, known_ids, acc)
    IN  NumericSub(updated_value.val, mapping, known_ids, updated_value.acc)

\* replace_question_ids and its two loops; after an exception nothing more runs.
RECURSIVE replace_question_ids(_, _, _, _)
RECURSIVE ReplaceItems(_, _, _, _, _)
RECURSIVE ReplaceEntries(_, _, _, _, _, _)

ReplaceItems(items, i, mapping, known_ids, acc) ==
  IF i > Len(items) \/ acc.err # "none" THEN [val |-> <<>>, acc |-> acc]
  ELSE
    LET r == replace_question_ids(items[i], mapping, known_ids, acc)
        rest == ReplaceItems(items, i + 1, mapping, known_ids, r.acc)
    IN  [val |-> <<r.val>> \o rest.val, acc |-> rest.acc]

ReplaceEntries(entries, i, updated, mapping, known_ids, acc) ==
  IF i > Len(entries) \/ acc.err # "none" THEN [val |-> updated, acc |-> acc]
  ELSE
    LET key == replace_dict_key(entries[i].k, mapping, known_ids, acc)
        new_value == replace_question_ids(entries[i].v, mapping, known_ids, key.acc)
    IN  IF new_value.acc.err # "none"
        THEN [val |-> updated, acc |-> new_value.acc]
        ELSE IF HasKey(updated, key.val) /\ ~PyEq(Lookup(updated, key.val), new_value.val)
        THEN [val |-> updated,
              acc |-> [new_value.acc EXCEPT !.err = "DependencyUpdateError"]]
        ELSE ReplaceEntries(entries, i + 1, SetKey(updated, key.val, new_value.val),
                            mapping, known_ids, new_value.acc)

replace_question_ids(obj, mapping, known_ids, acc) ==
  IF acc.err # "none" THEN [val |-> obj, acc |-> acc]
  ELSE IF obj.t = "bool" THEN [val |-> obj, acc |-> acc]
  ELSE IF obj.t = "int" THEN
    LET r == replace_numeric_int(obj.n, mapping, known_ids, acc)
    IN  [val |-> JInt(r.val), acc |-> r.acc]
  ELSE IF obj.t = "str" THEN
    LET r == replace_string_value(obj.s, mapping, known_ids, acc)
    IN  [val |-> JStr(r.val), acc |-> r.acc]
  ELSE IF obj.t = "list" THEN
    LET r == ReplaceItems(obj.items, 1, mapping, known_ids, acc)
    IN  [val |-> JList(r.val), acc |-> r.acc]
  ELSE IF obj.t = "dict" THEN
    LET r == ReplaceEntries(obj.entries, 1, <<>>, mapping, known_ids, acc)
    IN  [val |-> JDict(r.val), acc |-> r.acc]
  ELSE [val |-> obj, acc |-> acc]

(***************************************************************************)
(* form_and_question_id_updater.py: the tree rewriter.                     *)
(***************************************************************************)
Get(map, k) == IF k \in DOMAIN map THEN map[k] ELSE k

\* One hop per map: question_map once, then form_map.
update_numeric_one_hop(value, form_map, question_map) ==
  Get(form_map, Get(question_map, value))

\* replace_ids.update_numeric: question_map, question_map again ("chained
\* updates"), then form_map.
update_numeric(value, form_map, question_map) ==
  Get(form_map, Get(question_map, Get(question_map, value)))

\* The (?<!\d)(\d+)(?!\d) substitution of replace_ids.repl over the maximal
\* runs of digits of s, scanning from pos.
RECURSIVE DigitRunSub(_, _, _, _, _)
DigitRunSub(s, pos, form_map, question_map, stats) ==
  IF pos > Len(s) THEN [val |-> <<>>, stats |-> stats]
  ELSE IF ~IsDigitChar(s[pos]) THEN
    LET rest == DigitRunSub(s, pos + 1, form_map, question_map, stats)
    IN  [val |-> <<s[pos]>> \o rest.val, stats |-> rest.stats]
  ELSE
    LET e == DigitsEnd(s, pos)
        numeric == int(SubSeq(s, pos, e))
        new_value == update_numeric(numeric, form_map, question_map)
        changed == new_value # numeric
        rest == DigitRunSub(s, e + 1, form_map, question_map,
                            IF changed THEN Inc(stats, numeric, new_value) ELSE stats)
    IN  [val |-> (IF changed THEN str(new_value) ELSE SubSeq(s, pos, e)) \o rest.val,
         stats |-> rest.stats]

RECURSIVE replace_ids(_, _, _, _)
RECURSIVE ReplaceIdsItems(_, _, _, _, _)
RECURSIVE ReplaceIdsEntries(_, _, _, _, _)

ReplaceIdsItems(items, i, form_map, question_map, stats) ==
  IF i > Len(items) THEN [val |-> <<>>, stats |-> stats]
  ELSE
    LET r == replace_ids(items[i], form_map, question_map, stats)
        rest == ReplaceIdsItems(items, i + 1, form_map, question_map, r.stats)
    IN  [val |-> <<r.val>> \o rest.val, stats |-> rest.stats]

\* The dict comprehension keeps every key as it is.
ReplaceIdsEntries(entries, i, form_map, question_map, stats) ==
  IF i > Len(entries) THEN [val |-> <<>>, stats |-> stats]
  ELSE
    LET r == replace_ids(entries[i].v, form_map, question_map, stats)
        rest == ReplaceIdsEntries(entries, i + 1, form_map, question_map, r.stats)
    IN  [val |-> <<[k |-> entries[i].k, v |-> r.val]>> \o rest.val,
         stats |-> rest.stats]

replace_ids(obj, form_map, question_map, stats) ==
  IF obj.t = "dict" THEN
    LET r == ReplaceIdsEntries(obj.entries, 1, form_map, question_map, stats)
    IN  [val |-> JDict(r.val), stats |-> r.stats]
  ELSE IF obj.t = "list" THEN
    LET r == ReplaceIdsItems(obj.items, 1, form_map, question_map, stats)
    IN  [val |-> JList(r.val), stats |-> r.stats]
  ELSE IF IsNum(obj) THEN
    \* isinstance(obj, int) holds of a bool too: True is looked up as 1.
    LET v == NumVal(obj)
        new_value == update_numeric(v, form_map, question_map)
        looked_up == v \in DOMAIN question_map \/ v \in DOMAIN form_map
    IN  [val |-> IF obj.t = "bool" /\ ~looked_up THEN obj ELSE JInt(new_value),
         stats |-> IF new_value # v THEN Inc(stats, v, new_value) ELSE stats]
  ELSE IF obj.t = "str" THEN
    IF isdigit(obj.s) THEN
      LET numeric == int(obj.s)
          new_value == update_numeric(numeric, form_map, question_map)
      IN  IF new_value # numeric
          THEN [val |-> JStr(str(new_value)), stats |-> Inc(stats, numeric, new_value)]
          ELSE [val |-> obj, stats |-> stats]
    ELSE
      LET r == DigitRunSub(obj.s, 1, form_map, question_map, stats)
      IN  [val |-> JStr(r.val), stats |-> r.stats]
  ELSE [val |-> obj, stats |-> stats]

(***************************************************************************)
(* State.  Each specification below draws the inputs of one part of the    *)
(* program in its initial state and then runs that part; the variables     *)
(* another part owns keep their idle values.                               *)
(***************************************************************************)
VARIABLES
  pc,             \* the position of the run
  obj,            \* the document handed to the tree rewriter
  question_map,   \* source question ID -> target question ID
  form_map,       \* source form ID -> target form ID
  known_ids,      \* set(source_questions): the known source question IDs
  out,            \* what the rewriter returned: [val, stats, missing, err]
  workflow_text,  \* the content of the target workflow file, as characters
  write,          \* the write argument of sync_ids
  script,         \* "dep": dependency_question_id_updater, "sync": form_and_...
  source_forms,   \* the source form library, in file order
  target_forms,   \* the target form library, in file order
  source_questions,  \* source question ID -> question (without its id)
  target_questions,  \* target question ID -> question (without its id)
  target_order,   \* the target question IDs in the order of the bank file
  used_target_ids,   \* the local set of that name
  unresolved,     \* the list extend_question_map_with_signatures returns
  form_i,         \* the source form the loop of build_question_map is at
  index,          \* the position in that form's question_ids (0: not entered)
  sig_queue,      \* the signature buckets extend_... has still to visit
  error,          \* the exception raised, if any
  source_csv,     \* the data rows of the source custom-field CSV export
  target_csv,     \* the data rows of the target custom-field CSV export
  id_mapping,     \* build_id_mapping's mapping: source field ID -> target's
  missing_in_target,  \* field names of the source absent from the target
  missing_in_source,  \* field names of the target absent from the source
  target_questions_list,  \* main: the target question bank as a document
  dry_run,        \* main: args.dry_run
  question_out,   \* main: what the rewriter returned for the question bank
  updated_forms_file,     \* the file main writes the rewritten forms to
  updated_questions_file  \* the file main writes the rewritten bank to

rwVars == <<obj, form_map, known_ids, out, workflow_text, write>>

inputVars ==
  <<script, source_forms, target_forms, source_questions, target_questions,
    target_order>>

mapVars == <<used_target_ids, unresolved, form_i, index, sig_queue, error>>

fieldVars ==
  <<source_csv, target_csv, id_mapping, missing_in_target,
    missing_in_source>>

mainVars ==
  <<target_questions_list, dry_run, question_out, updated_forms_file,
    updated_questions_file>>

sideVars == <<fieldVars, mainVars>>

vars == <<pc, question_map, rwVars, inputVars, sideVars, mapVars>>

NoOut == [val |-> JNull, stats |-> EmptyMap, missing |-> {}, err |-> "none"]

NoError == [type |-> "none", what |-> "none", src_id |-> 0, candidates |-> <<>>]

\* The idle values of the variables of the ID mapper and of the rewriters.
MapIdle ==
  /\ script = "none"
  /\ source_forms = <<>> /\ target_forms = <<>>
  /\ source_questions = EmptyMap /\ target_questions = EmptyMap
  /\ target_order = <<>>
  /\ used_target_ids = {} /\ unresolved = <<>>
  /\ form_i = 0 /\ index = 0 /\ sig_queue = <<>>
  /\ error = NoError

\* The workflow file plays no part in the runs of the other specifications.
FileIdle == workflow_text = <<>> /\ write = FALSE

RwIdle ==
  obj = JNull /\ form_map = EmptyMap /\ known_ids = {} /\ out = NoOut /\ FileIdle

\* A file that has not been written.
NotWritten == [written |-> FALSE, text |-> <<>>]

\* The idle values of the variables of build_id_mapping and of main.
FieldIdle ==
  /\ source_csv = <<>> /\ target_csv = <<>>
  /\ id_mapping = EmptyMap
  /\ missing_in_target = {} /\ missing_in_source = {}

MainIdle ==
  /\ target_questions_list = JNull /\ dry_run = FALSE
  /\ question_out = NoOut
  /\ updated_forms_file = NotWritten /\ updated_questions_file = NotWritten

SideIdle == FieldIdle /\ MainIdle

(***************************************************************************)
(* Bounded inputs of the tree rewriters.                                   *)
(***************************************************************************)
MaxSegs == 3      \* pieces a string value is put together from
MaxEntries == 2   \* entries of an object
MaxItems == 2     \* items of a list

\* The pieces of text: IDs, a letter, backslash-d (as in a validation
\* regex), the placeholders {{Q<1>}} and {{Q<2>}}, and an unclosed {{Q<.
Segs ==
  { <<"1">>, <<"2">>, <<"x">>, <<"\\", "d">>,
    <<"{", "{", "Q", "<", "1", ">", "}", "}">>,
    <<"{", "{", "Q", "<", "2", ">", "}", "}">>,
    <<"{", "{", "Q", "<">> }

RECURSIVE SegStrings(_)
SegStrings(n) ==
  IF n = 0 THEN {<<>>}
  ELSE LET shorter == SegStrings(n - 1)
       IN  shorter \cup {s \o g : s \in shorter, g \in Segs}

Strings == SegStrings(MaxSegs)

Keys == {<<"1">>, <<"2">>, <<"x">>}

Leaves ==
  {JInt(1), JInt(2), JBool(TRUE), JNull, JStr(<<"1">>), JStr(<<"x">>)}

\* Sequences of at most n elements of S; with distinct keys for entries.
RECURSIVE SeqsUpTo(_, _)
SeqsUpTo(S, n) ==
  IF n = 0 THEN {<<>>}
  ELSE LET shorter == SeqsUpTo(S, n - 1)
       IN  shorter \cup {Append(q, x) : q \in shorter, x \in S}

EntrySeqs(vals, n) ==
  {e \in SeqsUpTo([k : Keys, v : vals], n) :
     \A i, j \in 1..Len(e) : i # j => e[i].k # e[j].k}

FlatDicts == {JDict(e) : e \in EntrySeqs(Leaves, MaxEntries)}

FlatLists == {JList(q) : q \in SeqsUpTo(Leaves, MaxItems)}

\* One more level: an object or a list holding a one-entry object.
NestedDocs ==
  LET inner == {JDict(e) : e \in EntrySeqs(Leaves, 1)}
  IN  {JDict(<<[k |-> <<"x">>, v |-> d]>>) : d \in inner}
        \cup {JList(<<d>>) : d \in inner}

Docs == {JStr(s) : s \in Strings} \cup Leaves \cup FlatDicts \cup FlatLists \cup NestedDocs

\* Partial maps from the IDs of S to the IDs of T.
PartialMaps(S, T) == UNION {[D -> T] : D \in SUBSET S}

SourceIds == {1, 2}

QuestionMaps == PartialMaps(SourceIds, {1, 7})

KnownSets == {{}, {1}, {1, 2}}

(***************************************************************************)
(* SpecRQ: dependency_question_id_updater.replace_question_ids on one      *)
(* document, with fresh stats and missing_ids.                             *)
(***************************************************************************)
InitRQ ==
  /\ pc = "rq_start"
  /\ obj \in Docs
  /\ question_map \in QuestionMaps
  /\ form_map = EmptyMap
  /\ known_ids \in KnownSets
  /\ out = NoOut
  /\ FileIdle
  /\ MapIdle
  /\ SideIdle

\* The value returned together with the Counter and the set of the call.
Returned(r) ==
  [val |-> r.val, stats |-> r.acc.stats, missing |-> r.acc.missing,
   err |-> r.acc.err]

RewriteQuestionIds ==
  /\ pc = "rq_start"
  /\ out' = Returned(replace_question_ids(obj, question_map, known_ids, NoAcc))
  /\ pc' = "rq_done"
  /\ UNCHANGED <<obj, question_map, form_map, known_ids, workflow_text, write,
                 inputVars, sideVars, mapVars>>

NextRQ == RewriteQuestionIds

SpecRQ == InitRQ /\ [][NextRQ]_vars

(***************************************************************************)
(* Claims about replace_question_ids (SpecRQ).                             *)
(***************************************************************************)
\* What a claim expects of a string of free text: every maximal run of digits
\* that names a key of the mapping is replaced by the mapped ID.
RECURSIVE RunsMapped(_, _, _)
RunsMapped(s, pos, mapping) ==
  IF pos > Len(s) THEN <<>>
  ELSE IF ~IsDigitChar(s[pos]) THEN <<s[pos]>> \o RunsMapped(s, pos + 1, mapping)
  ELSE
    LET e == DigitsEnd(s, pos)
        n == int(SubSeq(s, pos, e))
    IN  (IF n \in DOMAIN mapping THEN str(mapping[n]) ELSE SubSeq(s, pos, e))
          \o RunsMapped(s, e + 1, mapping)

\* The numbers that stand in s as maximal runs of digits.
RunIds(s) ==
  {int(SubSeq(s, a, b)) : <<a, b>> \in
     {p \in (1..Len(s)) \X (1..Len(s)) :
        /\ p[1] <= p[2]
        /\ \A i \in p[1]..p[2] : IsDigitChar(s[i])
        /\ ~IsDigitChar(CharAt(s, p[1] - 1))
        /\ ~IsDigitChar(CharAt(s, p[2] + 1))}}

RunIdsOfKey(k) == IF isdigit(k) THEN {int(k)} ELSE {}

\* The IDs a document refers to: native integers, pure-digit string values and
\* keys, placeholder numbers and bare numbers in free text.
RECURSIVE OccurIds(_)
OccurIds(v) ==
  IF v.t = "int" THEN {v.n}
  ELSE IF v.t = "str" THEN RunIds(v.s)
  ELSE IF v.t = "list" THEN UNION {OccurIds(v.items[i]) : i \in 1..Len(v.items)}
  ELSE IF v.t = "dict" THEN
    UNION {RunIdsOfKey(v.entries[i].k) \cup OccurIds(v.entries[i].v) :
             i \in 1..Len(v.entries)}
  ELSE {}

\* C5: after replace_question_ids has walked a document, missing_ids is exactly
\* the set of known, unmapped IDs the document refers to (as an integer, a
\* pure-digit string value or key, a placeholder number or a bare number in
\* free text).
C5_MissingIdsExact ==
  (pc = "rq_done" /\ out.err = "none") =>
    out.missing = (OccurIds(obj) \cap known_ids) \ DOMAIN question_map

\* C6: in a string value of free text (no placeholder in it), every maximal run
\* of digits that names a key of the mapping is replaced by the mapped ID, and
\* the other runs stay.
C6_FreeTextRunsReplaced ==
  (pc = "rq_done" /\ out.err = "none" /\ obj.t = "str" /\ ~isdigit(obj.s)
     /\ \A i \in 1..Len(obj.s) : obj.s[i] # "{") =>
    out.val = JStr(RunsMapped(obj.s, 1, question_map))

\* C10: on an object, each pure-digit key that names a key of the mapping
\* becomes the string of the mapped ID, every other key stays, and the value
\* under each key is the rewritten value whether or not the key changed. (Where
\* two keys rewrite to one key the values are equal as Python compares them.)
NewKey(k) ==
  IF isdigit(k) /\ int(k) \in DOMAIN question_map
  THEN str(question_map[int(k)]) ELSE k

Rewritten(v) == replace_question_ids(v, question_map, known_ids, NoAcc).val

C10_KeysAndValuesRewritten ==
  (pc = "rq_done" /\ out.err = "none" /\ obj.t = "dict") =>
    LET E == obj.entries
        R == out.val.entries
    IN  /\ {R[j].k : j \in 1..Len(R)} = {NewKey(E[i].k) : i \in 1..Len(E)}
        /\ \A j1, j2 \in 1..Len(R) : R[j1].k = R[j2].k => j1 = j2
        /\ \A i \in 1..Len(E) :
             IF \E i2 \in 1..Len(E) : i2 # i /\ NewKey(E[i2].k) = NewKey(E[i].k)
             THEN PyEq(Lookup(R, NewKey(E[i].k)), Rewritten(E[i].v))
             ELSE Lookup(R, NewKey(E[i].k)) = Rewritten(E[i].v)

\* An object with a replaced key and, under a key that stayed, a replaced value.
C10_Witness ==
  /\ pc = "rq_done" /\ out.err = "none" /\ obj.t = "dict"
  /\ \E i, j \in 1..Len(obj.entries) :
       /\ NewKey(obj.entries[i].k) # obj.entries[i].k
       /\ NewKey(obj.entries[j].k) = obj.entries[j].k
       /\ Rewritten(obj.entries[j].v) # obj.entries[j].v

(***************************************************************************)
(* SpecRI: form_and_question_id_updater.replace_ids on one document, with  *)
(* a fresh stats counter.                                                  *)
(***************************************************************************)
FormMaps == PartialMaps({2, 7}, {1, 9})

InitRI ==
  /\ pc = "ri_start"
  /\ obj \in Docs
  /\ question_map \in QuestionMaps
  /\ form_map \in FormMaps
  /\ known_ids = {}
  /\ out = NoOut
  /\ FileIdle
  /\ MapIdle
  /\ SideIdle

RewriteIds ==
  /\ pc = "ri_start"
  /\ LET r == replace_ids(obj, form_map, question_map, EmptyMap)
     IN  out' = [val |-> r.val, stats |-> r.stats, missing |-> {}, err |-> "none"]
  /\ pc' = "ri_done"
  /\ UNCHANGED <<obj, question_map, form_map, known_ids, workflow_text, write,
                 inputVars, sideVars, mapVars>>

NextRI == RewriteIds

SpecRI == InitRI /\ [][NextRI]_vars

\* C7 as stated: a native integer v becomes F(Q(v)), one hop per map.
C7_OneHopPerMap ==
  (pc = "ri_done" /\ obj.t = "int") =>
    out.val = JInt(Get(form_map, Get(question_map, obj.n)))

\* C7 as amended: a native integer v becomes F(Q(Q(v))): question_map is applied
\* twice (each time the identity when the key is absent), then form_map once.
C7_TwoQuestionHopsThenForm ==
  (pc = "ri_done" /\ obj.t = "int") =>
    out.val = JInt(Get(form_map, Get(question_map, Get(question_map, obj.n))))

\* An integer that takes both question hops and the form hop.
C7_Witness ==
  /\ pc = "ri_done" /\ obj.t = "int"
  /\ obj.n \in DOMAIN question_map
  /\ question_map[obj.n] \in DOMAIN question_map
  /\ question_map[question_map[obj.n]] # question_map[obj.n]
  /\ question_map[question_map[obj.n]] \in DOMAIN form_map

\* C9: replace_ids replaces an object's pure-digit key that names a mapped ID by
\* the string of the mapped ID and leaves the non-numeric keys as they are.
NewKeyIds(k) ==
  IF isdigit(k) /\ update_numeric(int(k), form_map, question_map) # int(k)
  THEN str(update_numeric(int(k), form_map, question_map)) ELSE k

C9_DigitKeysReplaced ==
  (pc = "ri_done" /\ obj.t = "dict") =>
    /\ Len(out.val.entries) = Len(obj.entries)
    /\ \A i \in 1..Len(obj.entries) :
         out.val.entries[i].k = NewKeyIds(obj.entries[i].k)

(***************************************************************************)
(* The ID mapper: build_question_map and                                   *)
(* extend_question_map_with_signatures of both scripts.                    *)
(*                                                                         *)
(* A question is [label, question_type, order] (order stands for the other *)
(* fields); its id is its key in the bank.  A label is a sequence of       *)
(* pieces of text.                                                         *)
(***************************************************************************)
\* A piece of label text that TARGET_BLANK_ATTR_PATTERN (\s+target="_blank")
\* matches.
TargetBlank == " target=\"_blank\""

normalize_label(label) == SelectSeq(label, LAMBDA piece : piece # TargetBlank)

\* json.dumps(payload, sort_keys=True): the values in the order of their keys.
canonicalize(payload) == <<payload.label, payload.order, payload.question_type>>

dep_sanitize_question(question) == canonicalize(question)

sync_sanitize_question(question) ==
  canonicalize([question EXCEPT !.label = normalize_label(@)])

sanitize_question(question) ==
  IF script = "sync" THEN sync_sanitize_question(question)
  ELSE dep_sanitize_question(question)

Range(f) == {f[x] : x \in DOMAIN f}

RECURSIVE Ascending(_)
Ascending(S) ==
  IF S = {} THEN <<>>
  ELSE LET least == CHOOSE x \in S : \A y \in S : x <= y
       IN  <<least>> \o Ascending(S \ {least})

ToSet(q) == {q[i] : i \in 1..Len(q)}

\* {form["display_name"]: form for form in target_forms}.get(name): the last
\* target form of that name, if any.
HasTargetForm(name) ==
  \E j \in 1..Len(target_forms) : target_forms[j].display_name = name

TargetFormByName(name) ==
  target_forms[CHOOSE j \in 1..Len(target_forms) :
    /\ target_forms[j].display_name = name
    /\ \A j2 \in (j + 1)..Len(target_forms) : target_forms[j2].display_name # name]

src_form == source_forms[form_i]

src_ids == src_form.question_ids

tgt_ids == TargetFormByName(src_form.display_name).question_ids

Raise(type, what, src_id, candidates) ==
  [type |-> type, what |-> what, src_id |-> src_id, candidates |-> candidates]

\* What the loops do after the body for position index: the next position, the
\* next form, or the return of build_question_map.
Advance ==
  IF index < Len(src_ids)
  THEN index' = index + 1 /\ form_i' = form_i
  ELSE index' = 0 /\ form_i' = form_i + 1

InForm == pc = "build" /\ form_i <= Len(source_forms)

(***************************************************************************)
(* dependency_question_id_updater.build_question_map                       *)
(***************************************************************************)
\* for src_form in source_forms: ... if not target_form: continue
DepSkipForm ==
  /\ script = "dep" /\ InForm /\ index = 0
  /\ ~HasTargetForm(src_form.display_name)
  /\ form_i' = form_i + 1
  /\ UNCHANGED <<pc, question_map, rwVars, inputVars, sideVars, used_target_ids,
                 unresolved, index, sig_queue, error>>

\* The same check with the comparison off by one: equal lengths raise too.
DepLengthErrorOffByOne ==
  /\ script = "dep" /\ InForm /\ index = 0
  /\ HasTargetForm(src_form.display_name)
  /\ Len(tgt_ids) <= Len(src_ids)
  /\ error' = Raise("DependencyUpdateError", "length", 0, <<>>)
  /\ pc' = "error"
  /\ UNCHANGED <<question_map, rwVars, inputVars, sideVars, used_target_ids, unresolved,
                 form_i, index, sig_queue>>

\* if len(tgt_ids) < len(src_ids): raise
DepLengthError ==
  /\ script = "dep" /\ InForm /\ index = 0
  /\ HasTargetForm(src_form.display_name)
  /\ Len(tgt_ids) < Len(src_ids)
  /\ error' = Raise("DependencyUpdateError", "length", 0, <<>>)
  /\ pc' = "error"
  /\ UNCHANGED <<question_map, rwVars, inputVars, sideVars, used_target_ids, unresolved,
                 form_i, index, sig_queue>>

\* used_target_ids = {qid for qid in question_map.values() if qid in tgt_ids}
DepEnterForm ==
  /\ script = "dep" /\ InForm /\ index = 0
  /\ HasTargetForm(src_form.display_name)
  /\ Len(tgt_ids) >= Len(src_ids)
  /\ used_target_ids' = Range(question_map) \cap ToSet(tgt_ids)
  /\ IF Len(src_ids) = 0
     THEN form_i' = form_i + 1 /\ index' = 0
     ELSE form_i' = form_i /\ index' = 1
  /\ UNCHANGED <<pc, question_map, rwVars, inputVars, sideVars, unresolved, sig_queue, error>>

FullMatch(tgt_id, src_id) ==
  /\ tgt_id \in DOMAIN target_questions
  /\ dep_sanitize_question(target_questions[tgt_id])
       = dep_sanitize_question(source_questions[src_id])

LooseMatch(tgt_id, src_id) ==
  /\ tgt_id \in DOMAIN target_questions
  /\ target_questions[tgt_id].label = source_questions[src_id].label
  /\ target_questions[tgt_id].question_type = source_questions[src_id].question_type

\* The candidate at the same position taken whatever it contains.
DirectCandidateUnchecked(src_id) ==
  IF tgt_ids[index] \notin used_target_ids THEN <<tgt_ids[index]>> ELSE <<>>

\* The candidate at the same position never taken.
DirectCandidateNone(src_id) == <<>>

\* Lines 113-123: the candidate at the same position, if it is usable.
DirectCandidate(src_id) ==
  LET direct_candidate == tgt_ids[index] IN
    IF direct_candidate \notin used_target_ids
       /\ (\/ src_id \notin DOMAIN source_questions
           \/ FullMatch(direct_candidate, src_id)
           \/ LooseMatch(direct_candidate, src_id))
    THEN <<direct_candidate>> ELSE <<>>

\* The search by full signature among all the targets of the form, the
\* consumed ones too.
FullCandidatesConsumed(src_id) ==
  SelectSeq(tgt_ids, LAMBDA t : FullMatch(t, src_id))

FullCandidates(src_id) ==
  SelectSeq(tgt_ids,
            LAMBDA t : t \notin used_target_ids /\ FullMatch(t, src_id))

\* The search by loose signature looking at the label alone.
LooseCandidatesByLabel(src_id) ==
  SelectSeq(tgt_ids,
            LAMBDA t : /\ t \notin used_target_ids
                       /\ t \in DOMAIN target_questions
                       /\ target_questions[t].label
                            = source_questions[src_id].label)

LooseCandidates(src_id) ==
  SelectSeq(tgt_ids,
            LAMBDA t : t \notin used_target_ids /\ LooseMatch(t, src_id))

\* After the candidate at the same position the search by loose signature
\* at once, taking the first target it finds.
DepOutcomeLooseFirst(src_id) ==
  IF DirectCandidate(src_id) # <<>>
    THEN [candidate |-> DirectCandidate(src_id), error |-> NoError]
  ELSE IF src_id \in DOMAIN source_questions /\ LooseCandidates(src_id) # <<>>
    THEN [candidate |-> <<LooseCandidates(src_id)[1]>>, error |-> NoError]
  ELSE [candidate |-> <<>>,
        error |-> Raise("DependencyUpdateError", "unable", src_id, <<>>)]

\* The first of several candidates of equal full signature taken, not refused.
DepOutcomeFirst(src_id) ==
  IF DirectCandidate(src_id) # <<>>
    THEN [candidate |-> DirectCandidate(src_id), error |-> NoError]
  ELSE IF src_id \in DOMAIN source_questions /\ FullCandidates(src_id) # <<>>
    THEN [candidate |-> <<FullCandidates(src_id)[1]>>, error |-> NoError]
  ELSE [candidate |-> <<>>,
        error |-> Raise("DependencyUpdateError", "unable", src_id, <<>>)]

\* The outcome of lines 106-154 for a source question that is not mapped yet:
\* <<target>> or the exception.
DepOutcome(src_id) ==
  LET present == src_id \in DOMAIN source_questions
      unable == Raise("DependencyUpdateError", "unable", src_id, <<>>)
  IN  IF DirectCandidate(src_id) # <<>>
        THEN [candidate |-> DirectCandidate(src_id), error |-> NoError]
      ELSE IF ~present THEN [candidate |-> <<>>, error |-> unable]
      ELSE IF Len(FullCandidates(src_id)) = 1
        THEN [candidate |-> FullCandidates(src_id), error |-> NoError]
      ELSE IF Len(FullCandidates(src_id)) > 1
        THEN [candidate |-> <<>>,
              error |-> Raise("DependencyUpdateError", "ambiguous", src_id,
                              FullCandidates(src_id))]
      ELSE IF Len(LooseCandidates(src_id)) = 1
        THEN [candidate |-> LooseCandidates(src_id), error |-> NoError]
      ELSE IF Len(LooseCandidates(src_id)) > 1
        THEN [candidate |-> <<>>,
              error |-> Raise("DependencyUpdateError", "ambiguous", src_id,
                              LooseCandidates(src_id))]
      ELSE [candidate |-> <<>>, error |-> unable]

\* if src_id in question_map: ... continue
DepQuestionSkip ==
  /\ script = "dep" /\ InForm /\ index >= 1
  /\ src_ids[index] \in DOMAIN question_map
  /\ used_target_ids' =
       used_target_ids \cup ({question_map[src_ids[index]]} \cap ToSet(tgt_ids))
  /\ Advance
  /\ UNCHANGED <<pc, question_map, rwVars, inputVars, sideVars, unresolved, sig_queue, error>>

\* question_map[src_id] = candidate_id; used_target_ids.add(candidate_id)
DepQuestionMap ==
  /\ script = "dep" /\ InForm /\ index >= 1
  /\ src_ids[index] \notin DOMAIN question_map
  /\ LET o == DepOutcome(src_ids[index]) IN
       /\ o.candidate # <<>>
       /\ question_map' = (src_ids[index] :> o.candidate[1]) @@ question_map
       /\ used_target_ids' = used_target_ids \cup {o.candidate[1]}
  /\ Advance
  /\ UNCHANGED <<pc, rwVars, inputVars, sideVars, unresolved, sig_queue, error>>

\* raise DependencyUpdateError: ambiguous matches, or no matching target
DepQuestionError ==
  /\ script = "dep" /\ InForm /\ index >= 1
  /\ src_ids[index] \notin DOMAIN question_map
  /\ LET o == DepOutcome(src_ids[index]) IN
       /\ o.candidate = <<>>
       /\ error' = o.error
  /\ pc' = "error"
  /\ UNCHANGED <<question_map, rwVars, inputVars, sideVars, used_target_ids, unresolved,
                 form_i, index, sig_queue>>

(***************************************************************************)
(* form_and_question_id_updater.build_question_map                         *)
(***************************************************************************)
\* if not target_form: continue
SyncSkipForm ==
  /\ script = "sync" /\ InForm /\ index = 0
  /\ ~HasTargetForm(src_form.display_name)
  /\ form_i' = form_i + 1
  /\ UNCHANGED <<pc, question_map, rwVars, inputVars, sideVars, used_target_ids,
                 unresolved, index, sig_queue, error>>

\* if len(source_ids) != len(target_ids): raise SyncError
SyncLengthError ==
  /\ script = "sync" /\ InForm /\ index = 0
  /\ HasTargetForm(src_form.display_name)
  /\ Len(src_ids) # Len(tgt_ids)
  /\ error' = Raise("SyncError", "length", 0, <<>>)
  /\ pc' = "error"
  /\ UNCHANGED <<question_map, rwVars, inputVars, sideVars, used_target_ids, unresolved,
                 form_i, index, sig_queue>>

SyncEnterForm ==
  /\ script = "sync" /\ InForm /\ index = 0
  /\ HasTargetForm(src_form.display_name)
  /\ Len(src_ids) = Len(tgt_ids)
  /\ IF Len(src_ids) = 0
     THEN form_i' = form_i + 1 /\ index' = 0
     ELSE form_i' = form_i /\ index' = 1
  /\ UNCHANGED <<pc, question_map, rwVars, inputVars, sideVars, used_target_ids,
                 unresolved, sig_queue, error>>

\* The conflict check left out.
ConflictingIgnored(src_qid, tgt_qid) == FALSE

\* existing is not None and existing != tgt_qid
Conflicting(src_qid, tgt_qid) ==
  src_qid \in DOMAIN question_map /\ question_map[src_qid] # tgt_qid

\* Lines 132-138: both questions are in their banks and differ in normalized
\* label or in question_type.
Mismatch(src_qid, tgt_qid) ==
  /\ src_qid \in DOMAIN source_questions
  /\ tgt_qid \in DOMAIN target_questions
  /\ \/ normalize_label(source_questions[src_qid].label)
          # normalize_label(target_questions[tgt_qid].label)
     \/ source_questions[src_qid].question_type
          # target_questions[tgt_qid].question_type

SyncQuestionConflict ==
  /\ script = "sync" /\ InForm /\ index >= 1
  /\ Conflicting(src_ids[index], tgt_ids[index])
  /\ error' = Raise("SyncError", "conflict", src_ids[index],
                    <<question_map[src_ids[index]], tgt_ids[index]>>)
  /\ pc' = "error"
  /\ UNCHANGED <<question_map, rwVars, inputVars, sideVars, used_target_ids, unresolved,
                 form_i, index, sig_queue>>

SyncQuestionMismatch ==
  /\ script = "sync" /\ InForm /\ index >= 1
  /\ ~Conflicting(src_ids[index], tgt_ids[index])
  /\ Mismatch(src_ids[index], tgt_ids[index])
  /\ error' = Raise("SyncError", "mismatch", src_ids[index], <<tgt_ids[index]>>)
  /\ pc' = "error"
  /\ UNCHANGED <<question_map, rwVars, inputVars, sideVars, used_target_ids, unresolved,
                 form_i, index, sig_queue>>

\* question_map[src_qid] = tgt_qid
SyncQuestionMap ==
  /\ script = "sync" /\ InForm /\ index >= 1
  /\ ~Conflicting(src_ids[index], tgt_ids[index])
  /\ ~Mismatch(src_ids[index], tgt_ids[index])
  /\ question_map' = (src_ids[index] :> tgt_ids[index]) @@ question_map
  /\ Advance
  /\ UNCHANGED <<pc, rwVars, inputVars, sideVars, used_target_ids, unresolved, sig_queue,
                 error>>

(***************************************************************************)
(* extend_question_map_with_signatures (the same code in both scripts,     *)
(* each with its own sanitize_question)                                    *)
(***************************************************************************)
\* source_questions.items() in the order of the bank file; the source bank is
\* listed by ascending id, the target bank as target_order says.
source_order == Ascending(DOMAIN source_questions)

SourceSignature(src_id) == sanitize_question(source_questions[src_id])

TargetSignature(tgt_id) == sanitize_question(target_questions[tgt_id])

\* source_signature_map as the list of its items, in insertion order, each
\* with the target_signature_map entry of its signature.
RECURSIVE SignatureBuckets(_, _, _)
SignatureBuckets(todo, unmapped, free_targets) ==
  IF todo = <<>> THEN <<>>
  ELSE LET sig == SourceSignature(Head(todo))
           same(s) == SourceSignature(s) = sig
       IN  <<[signature |-> sig,
              src_ids |-> SelectSeq(unmapped, same),
              target_ids |-> SelectSeq(free_targets,
                                       LAMBDA t : TargetSignature(t) = sig)]>>
           \o SignatureBuckets(SelectSeq(Tail(todo), LAMBDA s : ~same(s)),
                               unmapped, free_targets)

\* build_question_map returns; lines 166-178 of the extension, which runs next.
BeginExtend ==
  /\ pc = "build" /\ form_i > Len(source_forms)
  /\ LET unmapped == SelectSeq(source_order,
                               LAMBDA s : s \notin DOMAIN question_map)
         free_targets == SelectSeq(target_order,
                                   LAMBDA t : t \notin Range(question_map))
         buckets == SignatureBuckets(unmapped, unmapped, free_targets)
     IN  /\ sig_queue' = buckets
         /\ pc' = IF buckets = <<>> THEN "done" ELSE "extend"
  /\ used_target_ids' = Range(question_map)
  /\ unresolved' = <<>>
  /\ UNCHANGED <<question_map, rwVars, inputVars, sideVars, form_i, index, error>>

bucket == Head(sig_queue)

available_targets ==
  SelectSeq(bucket.target_ids, LAMBDA tid : tid \notin used_target_ids)

\* zip(src_ids, available_targets) as a map: the lists paired as they stand.
ZipUnsorted(srcs, tgts) ==
  [x \in ToSet(srcs) |-> tgts[CHOOSE i \in 1..Len(srcs) : srcs[i] = x]]

\* zip(sorted(src_ids), sorted(available_targets)) as a map
ZipSorted(srcs, tgts) ==
  LET s == Ascending(ToSet(srcs))
      t == Ascending(ToSet(tgts))
  IN  [x \in ToSet(srcs) |-> t[CHOOSE i \in 1..Len(s) : s[i] = x]]

EndBucket ==
  /\ sig_queue' = Tail(sig_queue)
  /\ pc' = IF Tail(sig_queue) = <<>> THEN "done" ELSE "extend"

\* A sweep that pairs what it can of a bucket of unequal sizes: the first
\* source gets the first available target, the other sources are unresolved.
ExtendUnresolvedGreedy ==
  /\ pc = "extend"
  /\ \/ available_targets = <<>>
     \/ /\ Len(bucket.src_ids) # Len(available_targets)
        /\ Len(bucket.src_ids) # 1
  /\ IF available_targets = <<>>
     THEN /\ unresolved' = unresolved \o bucket.src_ids
          /\ UNCHANGED <<question_map, used_target_ids>>
     ELSE /\ question_map' =
               (bucket.src_ids[1] :> available_targets[1]) @@ question_map
          /\ used_target_ids' = used_target_ids \cup {available_targets[1]}
          /\ unresolved' = unresolved \o Tail(bucket.src_ids)
  /\ EndBucket
  /\ UNCHANGED <<rwVars, inputVars, sideVars, form_i, index, error>>

\* A sweep that forgets the sources it could not pair.
ExtendUnresolvedDropped ==
  /\ pc = "extend"
  /\ \/ available_targets = <<>>
     \/ /\ Len(bucket.src_ids) # Len(available_targets)
        /\ Len(bucket.src_ids) # 1
  /\ EndBucket
  /\ UNCHANGED <<question_map, rwVars, inputVars, sideVars, used_target_ids,
                 unresolved, form_i, index, error>>

\* if not available_targets: unresolved.extend(src_ids); continue
\* ... else: unresolved.extend(src_ids)
ExtendUnresolved ==
  /\ pc = "extend"
  /\ \/ available_targets = <<>>
     \/ /\ Len(bucket.src_ids) # Len(available_targets)
        /\ Len(bucket.src_ids) # 1
  /\ unresolved' = unresolved \o bucket.src_ids
  /\ EndBucket
  /\ UNCHANGED <<question_map, rwVars, inputVars, sideVars, used_target_ids,
                 form_i, index, error>>

\* if len(src_ids) == len(available_targets): pair them in ascending order
ExtendPair ==
  /\ pc = "extend"
  /\ available_targets # <<>>
  /\ Len(bucket.src_ids) = Len(available_targets)
  /\ question_map' = ZipSorted(bucket.src_ids, available_targets) @@ question_map
  /\ used_target_ids' = used_target_ids \cup ToSet(available_targets)
  /\ EndBucket
  /\ UNCHANGED <<rwVars, inputVars, sideVars, unresolved, form_i, index, error>>

\* elif len(src_ids) == 1: tgt_id = available_targets[0]
ExtendSingle ==
  /\ pc = "extend"
  /\ available_targets # <<>>
  /\ Len(bucket.src_ids) # Len(available_targets)
  /\ Len(bucket.src_ids) = 1
  /\ question_map' = (bucket.src_ids[1] :> available_targets[1]) @@ question_map
  /\ used_target_ids' = used_target_ids \cup {available_targets[1]}
  /\ EndBucket
  /\ UNCHANGED <<rwVars, inputVars, sideVars, unresolved, form_i, index, error>>

(***************************************************************************)
(* Form libraries and question banks of the mapper specification           *)
(***************************************************************************)
MaxQuestionIds == 2

TargetIds == {11, 12, 13}

LabelA == <<"<a href=\"u\"", ">A</a>">>

LabelAT == <<"<a href=\"u\"", TargetBlank, ">A</a>">>

Question(label, question_type, order) ==
  [label |-> label, question_type |-> question_type, order |-> order]

QA0 == Question(LabelA, "text", 0)

\* as QA0 but for a field that is neither label nor question_type
QA1 == Question(LabelA, "text", 1)

\* as QA0 but for target="_blank" in the label
QT0 == Question(LabelAT, "text", 0)

\* as QA0 but for the question_type
QC0 == Question(LabelA, "choice", 0)

Shapes == {QA0, QA1, QT0, QC0}

Form(display_name, question_ids) ==
  [display_name |-> display_name, question_ids |-> question_ids]

Injective(q) == \A i, j \in 1..Len(q) : q[i] = q[j] => i = j

SourceIdLists == SeqsUpTo(SourceIds, MaxQuestionIds)

\* Lists without repetition, up to the renaming of 12 and 13 (13 is listed only
\* after 12); the longest lists are in ascending order.
TargetIdLists ==
  {q \in SeqsUpTo(TargetIds, MaxQuestionIds + 1) :
     /\ Injective(q)
     /\ \A i \in 1..Len(q) : q[i] = 13 => \E j \in 1..(i - 1) : q[j] = 12
     /\ Len(q) > MaxQuestionIds => q = Ascending(ToSet(q))}

\* The libraries: one form of the same name on both sides; two forms, the
\* second with or without a target of its name; no form at all; two target
\* forms of one name; a target form that lists one question twice.
Libraries ==
  {<<<<Form("F", s)>>, <<Form("F", t)>>>> :
     s \in SourceIdLists, t \in TargetIdLists}
  \cup
  {<<<<Form("F", <<s[1]>>), Form("G", <<s[2]>>)>>,
     <<Form("F", <<t[1]>>), Form("G", <<t[2]>>)>>>> :
     s \in SourceIds \X SourceIds, t \in {11, 12} \X {11, 12}}
  \cup
  {<<<<Form("G", <<s[1]>>), Form("F", <<s[2]>>)>>, <<Form("F", <<11>>)>>>> :
     s \in SourceIds \X SourceIds}
  \cup
  {<<<<>>, <<>>>>,
   <<<<Form("F", <<1>>)>>, <<Form("F", <<11>>), Form("F", <<12>>)>>>>,
   <<<<Form("F", <<1, 2>>)>>, <<Form("F", <<12, 12>>)>>>>}

\* The question banks: id -> question, an id may be missing from its bank.
SourceBanks ==
  {b \in PartialMaps(SourceIds, Shapes) : 1 \in DOMAIN b /\ b[1] = QA0}

TargetBanks ==
  {b \in PartialMaps(TargetIds, Shapes) : {12, 13} \subseteq DOMAIN b}

Descending(S) == [i \in 1..Cardinality(S) |-> Ascending(S)[Cardinality(S) + 1 - i]]

InitMap ==
  /\ pc = "build"
  /\ script \in {"dep", "sync"}
  /\ \E lib \in Libraries : source_forms = lib[1] /\ target_forms = lib[2]
  /\ source_questions \in SourceBanks
  /\ target_questions \in TargetBanks
  /\ target_order \in {Ascending(DOMAIN target_questions),
                       Descending(DOMAIN target_questions)}
  /\ question_map = EmptyMap
  /\ used_target_ids = {}
  /\ unresolved = <<>>
  /\ form_i = 1
  /\ index = 0
  /\ sig_queue = <<>>
  /\ error = NoError
  /\ RwIdle
  /\ SideIdle

NextMap ==
  \/ DepSkipForm
  \/ DepLengthError
  \/ DepEnterForm
  \/ DepQuestionSkip
  \/ DepQuestionMap
  \/ DepQuestionError
  \/ SyncSkipForm
  \/ SyncLengthError
  \/ SyncEnterForm
  \/ SyncQuestionConflict
  \/ SyncQuestionMismatch
  \/ SyncQuestionMap
  \/ BeginExtend
  \/ ExtendUnresolved
  \/ ExtendPair
  \/ ExtendSingle

SpecMap == InitMap /\ [][NextMap]_vars

(***************************************************************************)
(* Claims about the ID mapper                                              *)
(***************************************************************************)
\* C1: in both scripts an entry of question_map is never changed once it is
\* there: every step keeps every entry; the dependency updater's
\* build_question_map leaves the map alone at a source ID that is already
\* mapped, and the form-and-question updater's raises SyncError when the
\* pairing at hand gives a mapped source ID a different target.
C1_EntriesNeverChanged ==
  [][/\ \A s \in DOMAIN question_map :
          s \in DOMAIN question_map' /\ question_map'[s] = question_map[s]
     /\ (script = "dep" /\ InForm /\ index >= 1
           /\ src_ids[index] \in DOMAIN question_map)
          => question_map' = question_map /\ pc' = pc
     /\ (script = "sync" /\ InForm /\ index >= 1
           /\ src_ids[index] \in DOMAIN question_map
           /\ question_map[src_ids[index]] # tgt_ids[index])
          => pc' = "error" /\ error'.type = "SyncError"]_vars

\* A run of the dependency updater that met source ID 1 twice in one form and
\* then extended the map by source ID 2.
C1_Witness ==
  /\ pc = "done" /\ script = "dep"
  /\ Len(source_forms) = 1 /\ source_forms[1].question_ids = <<1, 1>>
  /\ {1, 2} \subseteq DOMAIN question_map

\* The unconsumed questions of the matched target form whose full signature is
\* that of source question s.
SameFullSignature(s) ==
  {t \in ToSet(tgt_ids) :
     /\ t \notin used_target_ids
     /\ t \in DOMAIN target_questions
     /\ canonicalize(target_questions[t]) = canonicalize(source_questions[s])}

PositionalUnusable(s) ==
  LET t == tgt_ids[index] IN
    \/ t \in used_target_ids
    \/ /\ ~(t \in DOMAIN target_questions
             /\ canonicalize(target_questions[t]) = canonicalize(source_questions[s]))
       /\ ~(t \in DOMAIN target_questions
             /\ target_questions[t].label = source_questions[s].label
             /\ target_questions[t].question_type = source_questions[s].question_type)

\* C2: in the dependency updater's build_question_map, when the positional
\* candidate of a source question is unusable and two or more unconsumed
\* questions of the matched target form have the source question's full
\* signature, the step raises DependencyUpdateError listing those candidates
\* and adds no mapping.
C2_AmbiguityRaises ==
  [][(/\ script = "dep" /\ InForm /\ index >= 1
      /\ src_ids[index] \notin DOMAIN question_map
      /\ src_ids[index] \in DOMAIN source_questions
      /\ PositionalUnusable(src_ids[index])
      /\ Cardinality(SameFullSignature(src_ids[index])) >= 2)
     => /\ pc' = "error"
        /\ error'.type = "DependencyUpdateError"
        /\ error'.what = "ambiguous"
        /\ error'.src_id = src_ids[index]
        /\ ToSet(error'.candidates) = SameFullSignature(src_ids[index])
        /\ question_map' = question_map]_vars

\* The ambiguity was raised for a source question whose positional candidate
\* had been consumed by an earlier mapping.
C2_Witness ==
  /\ pc = "error" /\ script = "dep" /\ error.what = "ambiguous"
  /\ tgt_ids[index] \in used_target_ids
  /\ Len(error.candidates) >= 2
  /\ ToSet(error.candidates) = SameFullSignature(src_ids[index])
  /\ src_ids[index] \notin DOMAIN question_map

\* C3: in extend_question_map_with_signatures a bucket of exactly one unmapped
\* source question is mapped only when exactly one target of its signature is
\* available; with two or more available targets the source question goes to
\* the unresolved list and no mapping is added.
C3_SingleSourceNeedsSingleTarget ==
  [][(pc = "extend" /\ Len(bucket.src_ids) = 1)
     => IF Len(available_targets) = 1
        THEN question_map' = (bucket.src_ids[1] :> available_targets[1]) @@ question_map
        ELSE /\ question_map' = question_map
             /\ unresolved' = Append(unresolved, bucket.src_ids[1])]_vars

\* All fields except id match after label normalization.
Equivalent(a, b) ==
  canonicalize([a EXCEPT !.label = normalize_label(@)])
    = canonicalize([b EXCEPT !.label = normalize_label(@)])

\* C8: in the dependency updater a source question and a target question that
\* differ only in id and in a target="_blank" attribute of the label are
\* matched: build_question_map accepts such an unconsumed positional candidate,
\* and the extension maps a lone source question to its lone free equivalent.
C8_EquivalentAfterNormalization ==
  [][/\ (/\ script = "dep" /\ InForm /\ index >= 1
         /\ src_ids[index] \notin DOMAIN question_map
         /\ src_ids[index] \in DOMAIN source_questions
         /\ tgt_ids[index] \notin used_target_ids
         /\ tgt_ids[index] \in DOMAIN target_questions
         /\ Equivalent(source_questions[src_ids[index]],
                       target_questions[tgt_ids[index]]))
        => /\ src_ids[index] \in DOMAIN question_map'
           /\ question_map'[src_ids[index]] = tgt_ids[index]
     /\ (/\ script = "dep" /\ pc = "extend"
         /\ Len(sig_queue) = 1 /\ Len(bucket.src_ids) = 1
         /\ Cardinality(DOMAIN source_questions \ DOMAIN question_map) = 1
         /\ \E t \in DOMAIN target_questions \ used_target_ids :
              /\ Equivalent(source_questions[bucket.src_ids[1]], target_questions[t])
              /\ \A t2 \in DOMAIN target_questions \ used_target_ids :
                   Equivalent(source_questions[bucket.src_ids[1]],
                              target_questions[t2]) => t2 = t)
        => bucket.src_ids[1] \in DOMAIN question_map']_vars

\* The dependency updater is at a source form that has a target form of the
\* same display name and is about to compare the two question_ids lists.
DepAtMatchedForm ==
  /\ script = "dep" /\ InForm /\ index = 0
  /\ HasTargetForm(src_form.display_name)

\* C11: for a name-matched form pair, build_question_map of the dependency
\* updater raises the DependencyUpdateError about the number of question IDs
\* exactly when the target form has fewer question IDs than the source form;
\* with as many or more the run goes on without an error at that step, and
\* that error is raised nowhere else.
C11_LengthErrorIffFewerTargets ==
  [][/\ DepAtMatchedForm =>
          IF Len(tgt_ids) < Len(src_ids)
          THEN /\ pc' = "error"
               /\ error'.type = "DependencyUpdateError"
               /\ error'.what = "length"
          ELSE pc' = "build" /\ error' = NoError
     /\ (script = "dep" /\ error.what # "length" /\ error'.what = "length") =>
          DepAtMatchedForm /\ Len(tgt_ids) < Len(src_ids)]_vars

\* A dependency run that stopped with the length error at a form pair whose
\* target has fewer question IDs.
C11_Witness ==
  /\ pc = "error" /\ script = "dep" /\ error.what = "length"
  /\ Len(tgt_ids) < Len(src_ids)

(***************************************************************************)
(* sync_ids from replace_ids on: the text-preserving patch of the workflow *)
(* file, its verification and the write.                                   *)
(***************************************************************************)
HexChars ==
  <<"0", "1", "2", "3", "4", "5", "6", "7", "8", "9", "a", "b", "c", "d", "e", "f">>

UpperHexChars ==
  <<"0", "1", "2", "3", "4", "5", "6", "7", "8", "9", "A", "B", "C", "D", "E", "F">>

IsHexChar(c) == \E k \in 1..16 : HexChars[k] = c \/ UpperHexChars[k] = c

HexVal(c) == (CHOOSE k \in 1..16 : HexChars[k] = c \/ UpperHexChars[k] = c) - 1

\* The character of a code point, for the code points the workflow texts below
\* and their patches come to: the digits, the quote, the backslash, d, x and
\* the control character U+0012 (written "DC2").
Chr(code) ==
  IF code >= 48 /\ code <= 57 THEN DigitChars[code - 47]
  ELSE IF code = 34 THEN "\""
  ELSE IF code = 92 THEN "\\"
  ELSE IF code = 100 THEN "d"
  ELSE IF code = 120 THEN "x"
  ELSE IF code = 18 THEN "DC2"
  ELSE "other"

ParseFail == [ok |-> FALSE, val |-> JNull, next |-> 0]

\* json.loads on a text without whitespace: arrays, strings with the escapes
\* \" \\ \/ \uXXXX, and integers without sign; anything else is a
\* JSONDecodeError.  ParseString starts behind the opening quote.
RECURSIVE ParseString(_, _)
ParseString(text, pos) ==
  IF pos > Len(text) THEN ParseFail
  ELSE IF text[pos] = "\"" THEN [ok |-> TRUE, val |-> JStr(<<>>), next |-> pos + 1]
  ELSE IF text[pos] = "\\" THEN
    IF pos + 1 > Len(text) THEN ParseFail
    ELSE IF text[pos + 1] = "u" THEN
      IF pos + 5 <= Len(text) /\ \A i \in (pos + 2)..(pos + 5) : IsHexChar(text[i])
      THEN LET code == 4096 * HexVal(text[pos + 2]) + 256 * HexVal(text[pos + 3])
                         + 16 * HexVal(text[pos + 4]) + HexVal(text[pos + 5])
               rest == ParseString(text, pos + 6)
           IN  IF rest.ok
               THEN [rest EXCEPT !.val = JStr(<<Chr(code)>> \o rest.val.s)]
               ELSE ParseFail
      ELSE ParseFail
    ELSE IF text[pos + 1] \in {"\"", "\\", "/"} THEN
      LET rest == ParseString(text, pos + 2)
      IN  IF rest.ok
          THEN [rest EXCEPT !.val = JStr(<<text[pos + 1]>> \o rest.val.s)]
          ELSE ParseFail
    ELSE ParseFail
  ELSE
    LET rest == ParseString(text, pos + 1)
    IN  IF rest.ok THEN [rest EXCEPT !.val = JStr(<<text[pos]>> \o rest.val.s)]
        ELSE ParseFail

\* A number with a leading zero ends behind the zero, and what follows it is
\* no "," and no "]".
ParseNumber(text, pos) ==
  LET e == DigitsEnd(text, pos) IN
    IF text[pos] = "0" /\ e > pos THEN ParseFail
    ELSE [ok |-> TRUE, val |-> JInt(int(SubSeq(text, pos, e))), next |-> e + 1]

RECURSIVE ParseValue(_, _)
RECURSIVE ParseItems(_, _)
ParseValue(text, pos) ==
  IF pos > Len(text) THEN ParseFail
  ELSE IF text[pos] = "\"" THEN ParseString(text, pos + 1)
  ELSE IF IsDigitChar(text[pos]) THEN ParseNumber(text, pos)
  ELSE IF text[pos] = "[" THEN
    IF pos + 1 <= Len(text) /\ text[pos + 1] = "]"
    THEN [ok |-> TRUE, val |-> JList(<<>>), next |-> pos + 2]
    ELSE ParseItems(text, pos + 1)
  ELSE ParseFail

\* The items of an array from pos on, up to and with the closing bracket.
ParseItems(text, pos) ==
  LET item == ParseValue(text, pos) IN
    IF ~item.ok \/ item.next > Len(text) THEN ParseFail
    ELSE IF text[item.next] = "]"
      THEN [ok |-> TRUE, val |-> JList(<<item.val>>), next |-> item.next + 1]
    ELSE IF text[item.next] = ","
      THEN LET rest == ParseItems(text, item.next + 1)
           IN  IF rest.ok
               THEN [rest EXCEPT !.val = JList(<<item.val>> \o rest.val.items)]
               ELSE ParseFail
    ELSE ParseFail

loads(text) ==
  LET r == ParseValue(text, 1) IN
    IF r.ok /\ r.next = Len(text) + 1 THEN r ELSE ParseFail

\* json.dumps(value, indent=2) of lists and scalars (ensure_ascii escapes the
\* control character).
RECURSIVE EscapeChars(_)
EscapeChars(chars) ==
  IF chars = <<>> THEN <<>>
  ELSE (IF Head(chars) \in {"\"", "\\"} THEN <<"\\", Head(chars)>>
        ELSE IF Head(chars) = "DC2" THEN <<"\\", "u", "0", "0", "1", "2">>
        ELSE <<Head(chars)>>) \o EscapeChars(Tail(chars))

Indent(level) == [i \in 1..(2 * level) |-> " "]

RECURSIVE dumps(_, _)
RECURSIVE DumpItems(_, _, _)
RECURSIVE DumpEntries(_, _, _)
DumpEntries(entries, i, level) ==
  <<"\n">> \o Indent(level)
    \o <<"\"">> \o EscapeChars(entries[i].k) \o <<"\"", ":", " ">>
    \o dumps(entries[i].v, level)
    \o (IF i < Len(entries) THEN <<",">> \o DumpEntries(entries, i + 1, level)
        ELSE <<"\n">> \o Indent(level - 1))

DumpItems(items, i, level) ==
  <<"\n">> \o Indent(level) \o dumps(items[i], level)
    \o (IF i < Len(items) THEN <<",">> \o DumpItems(items, i + 1, level)
        ELSE <<"\n">> \o Indent(level - 1))

dumps(value, level) ==
  IF value.t = "int" THEN str(value.n)
  ELSE IF value.t = "bool" THEN
    (IF value.b THEN <<"t", "r", "u", "e">> ELSE <<"f", "a", "l", "s", "e">>)
  ELSE IF value.t = "str" THEN <<"\"">> \o EscapeChars(value.s) \o <<"\"">>
  ELSE IF value.t = "list" THEN
    IF value.items = <<>> THEN <<"[", "]">>
    ELSE <<"[">> \o DumpItems(value.items, 1, level + 1) \o <<"]">>
  ELSE IF value.t = "dict" THEN
    IF value.entries = <<>> THEN <<"{", "}">>
    ELSE <<"{">> \o DumpEntries(value.entries, 1, level + 1) \o <<"}">>
  ELSE <<"n", "u", "l", "l">>

\* A backslash and a d at positions i and i + 1: what \\d of the pattern
\* rf"(?<!\\d){old}(?!\\d)" matches.
BackslashD(text, i) == CharAt(text, i) = "\\" /\ CharAt(text, i + 1) = "d"

PatternMatches(text, pos, old) ==
  /\ pos + Len(old) - 1 <= Len(text)
  /\ SubSeq(text, pos, pos + Len(old) - 1) = old
  /\ ~BackslashD(text, pos - 2)
  /\ ~BackslashD(text, pos + Len(old))

\* pattern.subn(str(new), updated_text): [text, replaced]
RECURSIVE subn(_, _, _, _)
subn(text, pos, old, new) ==
  IF pos > Len(text) THEN [text |-> <<>>, replaced |-> 0]
  ELSE IF PatternMatches(text, pos, old) THEN
    LET rest == subn(text, pos + Len(old), old, new)
    IN  [text |-> new \o rest.text, replaced |-> rest.replaced + 1]
  ELSE
    LET rest == subn(text, pos + 1, old, new)
    IN  [text |-> <<text[pos]>> \o rest.text, replaced |-> rest.replaced]

\* sorted(stats.items()): the (old, new) pairs in ascending order
RECURSIVE SortedPairs(_)
SortedPairs(pairs) ==
  IF pairs = {} THEN <<>>
  ELSE LET least == CHOOSE p \in pairs : \A q \in pairs :
                      p[1] < q[1] \/ (p[1] = q[1] /\ p[2] <= q[2])
       IN  <<least>> \o SortedPairs(pairs \ {least})

\* The loop of lines 279-285: [ok, text]; ok is FALSE when a pair was replaced
\* another number of times than stats counts.
RECURSIVE PatchPairs(_, _, _)
PatchPairs(updated_text, pairs, stats) ==
  IF pairs = <<>> THEN [ok |-> TRUE, text |-> updated_text]
  ELSE LET r == subn(updated_text, 1, str(Head(pairs)[1]), str(Head(pairs)[2]))
       IN  IF r.replaced # stats[Head(pairs)]
           THEN [ok |-> FALSE, text |-> r.text]
           ELSE PatchPairs(r.text, Tail(pairs), stats)

Patched == PatchPairs(workflow_text, SortedPairs(DOMAIN out.stats), out.stats)

\* stats = Counter(); updated_workflow = replace_ids(workflow, ...)
SyncReplaceIds ==
  /\ pc = "sync_ids"
  /\ LET r == replace_ids(obj, form_map, question_map, EmptyMap)
     IN  out' = [val |-> r.val, stats |-> r.stats, missing |-> {}, err |-> "none"]
  /\ pc' = "replaced"
  /\ UNCHANGED <<obj, question_map, form_map, known_ids, workflow_text, write,
                 inputVars, sideVars, mapVars>>

PatchUnchanged ==
  UNCHANGED <<obj, question_map, form_map, known_ids, out, write, inputVars, sideVars,
              used_target_ids, unresolved, form_i, index, sig_queue>>

\* A dry run that writes the rewritten workflow all the same.
SyncDryRunWritten ==
  /\ pc = "replaced" /\ ~write
  /\ workflow_text' = dumps(out.val, 0)
  /\ pc' = "done"
  /\ UNCHANGED error
  /\ PatchUnchanged

\* write is False: nothing is written
SyncDryRun ==
  /\ pc = "replaced" /\ ~write
  /\ pc' = "done"
  /\ UNCHANGED <<workflow_text, error>>
  /\ PatchUnchanged

\* elif write: no replacement, the workflow is written as json.dumps gives it
SyncWriteDumped ==
  /\ pc = "replaced" /\ write /\ DOMAIN out.stats = {}
  /\ workflow_text' = dumps(out.val, 0)
  /\ pc' = "done"
  /\ UNCHANGED error
  /\ PatchUnchanged

\* raise SyncError: Expected to replace {count} occurrences ...
SyncCountError ==
  /\ pc = "replaced" /\ write /\ DOMAIN out.stats # {}
  /\ ~Patched.ok
  /\ error' = Raise("SyncError", "count", 0, <<>>)
  /\ pc' = "error"
  /\ UNCHANGED workflow_text
  /\ PatchUnchanged

\* json.loads(updated_text) raises json.JSONDecodeError
SyncDecodeError ==
  /\ pc = "replaced" /\ write /\ DOMAIN out.stats # {}
  /\ Patched.ok
  /\ ~loads(Patched.text).ok
  /\ error' = Raise("JSONDecodeError", "decode", 0, <<>>)
  /\ pc' = "error"
  /\ UNCHANGED workflow_text
  /\ PatchUnchanged

\* raise SyncError: Text replacements did not produce the expected workflow
SyncDivergedError ==
  /\ pc = "replaced" /\ write /\ DOMAIN out.stats # {}
  /\ Patched.ok
  /\ loads(Patched.text).ok
  /\ ~PyEq(loads(Patched.text).val, out.val)
  /\ error' = Raise("SyncError", "diverged", 0, <<>>)
  /\ pc' = "error"
  /\ UNCHANGED workflow_text
  /\ PatchUnchanged

\* target_workflow_path.write_text(updated_text)
SyncWritePatched ==
  /\ pc = "replaced" /\ write /\ DOMAIN out.stats # {}
  /\ Patched.ok
  /\ loads(Patched.text).ok
  /\ PyEq(loads(Patched.text).val, out.val)
  /\ workflow_text' = Patched.text
  /\ pc' = "done"
  /\ UNCHANGED error
  /\ PatchUnchanged

(***************************************************************************)
(* SpecPatch: sync_ids after the maps are built, on a workflow file that   *)
(* holds a list of numbers and strings.                                    *)
(***************************************************************************)
Quoted(chars) == <<"\"">> \o chars \o <<"\"">>

\* The items as the file spells them: 12, 120, 7, "12", "12", "12",
\* "\u0012", "x12" and "\\d12".
ItemTexts ==
  { <<"1", "2">>, <<"1", "2", "0">>, <<"7">>,
    Quoted(<<"1", "2">>),
    Quoted(<<"1", "\\", "u", "0", "0", "3", "2">>),
    Quoted(<<"\\", "u", "0", "0", "3", "1", "2">>),
    Quoted(<<"\\", "u", "0", "0", "1", "2">>),
    Quoted(<<"x", "1", "2">>),
    Quoted(<<"\\", "\\", "d", "1", "2">>) }

RECURSIVE Joined(_)
Joined(items) ==
  IF items = <<>> THEN <<>>
  ELSE IF Len(items) = 1 THEN items[1]
  ELSE items[1] \o <<",">> \o Joined(Tail(items))

WorkflowTexts ==
  {<<"[">> \o Joined(items) \o <<"]">> : items \in SeqsUpTo(ItemTexts, MaxItems)}

InitPatch ==
  /\ pc = "sync_ids"
  /\ workflow_text \in WorkflowTexts
  /\ write \in BOOLEAN
  /\ obj = loads(workflow_text).val
  /\ question_map \in PartialMaps({12, 120}, {7, 345})
  /\ form_map \in PartialMaps({7}, {9})
  /\ known_ids = {}
  /\ out = NoOut
  /\ MapIdle
  /\ SideIdle

NextPatch ==
  \/ SyncReplaceIds
  \/ SyncDryRun
  \/ SyncWriteDumped
  \/ SyncCountError
  \/ SyncDecodeError
  \/ SyncDivergedError
  \/ SyncWritePatched

SpecPatch == InitPatch /\ [][NextPatch]_vars

\* The textual replacements of every (old, new) pair are as many as stats
\* counts, and the patched text parses to a value equal to updated_workflow.
PatchVerified ==
  /\ Patched.ok
  /\ loads(Patched.text).ok
  /\ PyEq(loads(Patched.text).val, out.val)

\* C4: sync_ids with write=True and at least one replacement writes the patched
\* workflow text only if the patch is verified (counts equal, re-parsed value
\* equal to the tree of replace_ids); in every other case it raises SyncError
\* and the file is as it was.
C4_WriteOnlyVerifiedElseSyncError ==
  [][(pc = "replaced" /\ write /\ DOMAIN out.stats # {})
     => /\ workflow_text' # workflow_text => PatchVerified
        /\ pc' = "done" => PatchVerified /\ workflow_text' = Patched.text
        /\ ~PatchVerified =>
             /\ pc' = "error"
             /\ error'.type = "SyncError"
             /\ workflow_text' = workflow_text]_vars

(***************************************************************************)
(* form_and_question_id_updater.build_form_map.  A form library entry is   *)
(* [object, display_name, id]: whether the entry is a JSON object, and the *)
(* JSON values of its display_name (JNull when absent) and of its id.      *)
(***************************************************************************)
\* to_int of the form-and-question updater, on an int or a digit string.
sync_to_int(value) == IF IsNum(value) THEN NumVal(value) ELSE int(value.s)

EntryError(type, what, context, entry_index) ==
  [type |-> type, what |-> what, context |-> context, index |-> entry_index]

NotAnObject(form) == ~form.object

\* not isinstance(name, str) or not name
MissingDisplayName(form) ==
  form.display_name.t # "str" \/ form.display_name.s = <<>>

\* The loop raising on the last entry at fault instead of the first.
validate_form_entries_last(forms, context) ==
  LET bad == {i \in 1..Len(forms) :
                NotAnObject(forms[i]) \/ MissingDisplayName(forms[i])}
  IN  IF bad = {} THEN NoError
      ELSE LET i == CHOOSE i \in bad : \A j \in bad : i >= j
           IN  EntryError("SyncError",
                          IF NotAnObject(forms[i]) THEN "not an object"
                          ELSE "missing display_name",
                          context, i - 1)

\* The first entry the loop of validate_form_entries raises on, with the
\* index enumerate gives it (from 0); NoError when the loop runs through.
validate_form_entries(forms, context) ==
  LET bad == {i \in 1..Len(forms) :
                NotAnObject(forms[i]) \/ MissingDisplayName(forms[i])}
  IN  IF bad = {} THEN NoError
      ELSE LET i == CHOOSE i \in bad : \A j \in bad : i <= j
           IN  EntryError("SyncError",
                          IF NotAnObject(forms[i]) THEN "not an object"
                          ELSE "missing display_name",
                          context, i - 1)

\* {form["display_name"]: form for form in forms}: the last form of a name.
index_forms_by_name(forms) ==
  [name \in {forms[j].display_name.s : j \in 1..Len(forms)} |->
     forms[CHOOSE j \in 1..Len(forms) :
             /\ forms[j].display_name.s = name
             /\ \A j2 \in (j + 1)..Len(forms) : forms[j2].display_name.s # name]]

\* for src_form in source_forms: ... form_map[to_int(...)] = to_int(...)
RECURSIVE FormMapLoop(_, _, _, _)
FormMapLoop(forms, i, target_by_name, map) ==
  IF i > Len(forms) THEN map
  ELSE LET name == forms[i].display_name.s
       IN  IF name \notin DOMAIN target_by_name
           THEN FormMapLoop(forms, i + 1, target_by_name, map)
           ELSE FormMapLoop(forms, i + 1, target_by_name,
                  (sync_to_int(forms[i].id)
                     :> sync_to_int(target_by_name[name].id)) @@ map)

build_form_map(source, target) ==
  LET source_error == validate_form_entries(source, "Source forms library")
      target_error == validate_form_entries(target, "Target forms library")
  IN  IF source_error # NoError
      THEN [form_map |-> EmptyMap, error |-> source_error]
      ELSE IF target_error # NoError
      THEN [form_map |-> EmptyMap, error |-> target_error]
      ELSE [form_map |-> FormMapLoop(source, 1, index_forms_by_name(target),
                                     EmptyMap),
            error |-> NoError]

\* form_map = build_form_map(source_forms, target_forms), as sync_ids calls it
BuildFormMap ==
  /\ pc = "build_form_map"
  /\ LET built == build_form_map(source_forms, target_forms)
     IN  /\ form_map' = built.form_map
         /\ error' = built.error
         /\ pc' = IF built.error = NoError THEN "done" ELSE "error"
  /\ UNCHANGED <<question_map, obj, known_ids, out, workflow_text, write,
                 inputVars, sideVars, used_target_ids, unresolved, form_i,
                 index, sig_queue>>

\* The head of build_question_map of the form-and-question updater:
\*   validate_form_entries(source_forms, context="Source forms library")
\*   target_forms_by_name = index_forms_by_name(target_forms, ...)
\*   question_map = {}
\* It raises, or leaves the run at the first source form of the loop that
\* SyncSkipForm, SyncLengthError and SyncEnterForm go on from.
SyncValidateForms ==
  /\ pc = "build_question_map"
  /\ LET source_error ==
           validate_form_entries(source_forms, "Source forms library")
         target_error ==
           validate_form_entries(target_forms, "Target forms library")
     IN  /\ error' = IF source_error # NoError THEN source_error
                     ELSE target_error
         /\ pc' = IF error' = NoError THEN "build" ELSE "error"
         /\ form_i' = IF error' = NoError THEN 1 ELSE form_i
  /\ question_map' = EmptyMap
  /\ UNCHANGED <<rwVars, inputVars, sideVars, used_target_ids, unresolved,
                 index, sig_queue>>

(***************************************************************************)
(* custom_field_id_updater: load_field_map and build_id_mapping.  A CSV    *)
(* row is [name, id]: the stripped Field Name and Field ID cells.          *)
(***************************************************************************)
\* for row in reader: ...   The map is a sequence of entries in insertion
\* order; the result is [map, error].
RECURSIVE LoadRows(_, _, _, _)
LoadRows(rows, i, map, csv_path) ==
  IF i > Len(rows) THEN
    IF map = <<>>
    THEN [map |-> map,
          error |-> EntryError("UpdateError", "no usable rows", csv_path, 0)]
    ELSE [map |-> map, error |-> NoError]
  ELSE LET field_name == rows[i].name
           field_id_raw == rows[i].id
       IN  IF field_name = <<>> \/ field_id_raw = <<>>
           THEN LoadRows(rows, i + 1, map, csv_path)
           ELSE IF ~isdigit(field_id_raw)
           THEN [map |-> map,
                 error |-> EntryError("UpdateError", "not numeric", csv_path, i)]
           ELSE IF /\ HasKey(map, field_name)
                   /\ Lookup(map, field_name) # int(field_id_raw)
           THEN [map |-> map,
                 error |-> EntryError("UpdateError", "duplicate field name",
                                      csv_path, i)]
           ELSE LoadRows(rows, i + 1,
                         SetKey(map, field_name, int(field_id_raw)), csv_path)

load_field_map(rows, csv_path) == LoadRows(rows, 1, <<>>, csv_path)

\* for field_name, old_id in source_map.items(): ...   The result is
\* [mapping, missing_in_target].
RECURSIVE IdMappingLoop(_, _, _, _, _)
IdMappingLoop(source_map, i, target_map, map, missing) ==
  IF i > Len(source_map) THEN [mapping |-> map, missing_in_target |-> missing]
  ELSE LET field_name == source_map[i].k
           old_id == source_map[i].v
       IN  IF ~HasKey(target_map, field_name)
           THEN IdMappingLoop(source_map, i + 1, target_map, map,
                              missing \cup {field_name})
           ELSE IdMappingLoop(source_map, i + 1, target_map,
                              (old_id :> Lookup(target_map, field_name)) @@ map,
                              missing)

build_id_mapping(source_rows, target_rows) ==
  LET source_map == load_field_map(source_rows, "source")
      target_map == load_field_map(target_rows, "target")
      looped == IdMappingLoop(source_map.map, 1, target_map.map, EmptyMap, {})
      none == [mapping |-> EmptyMap, missing_in_target |-> {},
               missing_in_source |-> {}]
  IN  IF source_map.error # NoError THEN none @@ [error |-> source_map.error]
      ELSE IF target_map.error # NoError THEN none @@ [error |-> target_map.error]
      ELSE IF looped.mapping = EmptyMap
      THEN none @@ [error |-> EntryError("UpdateError", "no overlap", "both", 0)]
      ELSE looped @@
           [missing_in_source |->
              {target_map.map[j].k : j \in 1..Len(target_map.map)}
                \ {source_map.map[j].k : j \in 1..Len(source_map.map)},
            error |-> NoError]

\* mapping, missing_in_target, missing_in_source = build_id_mapping(...)
BuildIdMapping ==
  /\ pc = "build_id_mapping"
  /\ LET built == build_id_mapping(source_csv, target_csv)
     IN  /\ id_mapping' = built.mapping
         /\ missing_in_target' = built.missing_in_target
         /\ missing_in_source' = built.missing_in_source
         /\ error' = built.error
         /\ pc' = IF built.error = NoError THEN "done" ELSE "error"
  /\ UNCHANGED <<question_map, rwVars, inputVars, source_csv, target_csv,
                 mainVars, used_target_ids, unresolved, form_i, index,
                 sig_queue>>

(***************************************************************************)
(* Bounded inputs of the two builders.                                     *)
(***************************************************************************)
MaxForms == 2   \* entries of a form library handed to build_form_map
MaxRows == 2    \* data rows of a custom-field CSV export

LibraryEntry(display_name, id) ==
  [object |-> TRUE, display_name |-> display_name, id |-> id]

\* An entry that is not an object (a number, say, in a list of forms).
NonObject == [object |-> FALSE, display_name |-> JNull, id |-> JNull]

DisplayNames == {JNull, JStr(<<>>), JStr(<<"F">>), JStr(<<"G">>)}

SourceLibraryEntries ==
  {NonObject} \cup {LibraryEntry(n, i) :
                      n \in DisplayNames, i \in {JInt(1), JStr(<<"2">>)}}

TargetLibraryEntries ==
  {NonObject} \cup {LibraryEntry(n, i) :
                      n \in DisplayNames, i \in {JInt(10), JStr(<<"2", "0">>)}}

CsvRow(name, id) == [name |-> name, id |-> id]

\* Rows with a blank cell, with an ID that is not a number, and plain rows.
CsvRows(ids) ==
  {CsvRow(<<>>, ids[1]), CsvRow(<<"a">>, <<>>), CsvRow(<<"a">>, <<"x">>)}
    \cup {CsvRow(n, i) : n \in {<<"a">>, <<"b">>}, i \in ToSet(ids)}

InitBuild ==
  /\ \/ /\ pc \in {"build_form_map", "build_question_map"} /\ script = "sync"
        /\ source_forms \in SeqsUpTo(SourceLibraryEntries, MaxForms)
        /\ target_forms \in SeqsUpTo(TargetLibraryEntries, MaxForms)
        /\ source_csv = <<>> /\ target_csv = <<>>
     \/ /\ pc = "build_id_mapping" /\ script = "fields"
        /\ source_forms = <<>> /\ target_forms = <<>>
        /\ source_csv \in SeqsUpTo(CsvRows(<<<<"5">>, <<"0", "6">>>>), MaxRows)
        /\ target_csv \in SeqsUpTo(CsvRows(<<<<"5", "0">>, <<"6", "0">>>>), MaxRows)
  /\ question_map = EmptyMap
  /\ source_questions = EmptyMap /\ target_questions = EmptyMap
  /\ target_order = <<>>
  /\ used_target_ids = {} /\ unresolved = <<>>
  /\ form_i = 0 /\ index = 0 /\ sig_queue = <<>>
  /\ error = NoError
  /\ id_mapping = EmptyMap
  /\ missing_in_target = {} /\ missing_in_source = {}
  /\ RwIdle
  /\ MainIdle

NextBuild ==
  \/ BuildFormMap
  \/ SyncValidateForms
  \/ BuildIdMapping

SpecBuild == InitBuild /\ [][NextBuild]_vars

(***************************************************************************)
(* Claims about the builders of the form map and of the custom-field map   *)
(***************************************************************************)
\* Two pairings of one source ID with different target IDs.
Conflict(pairings) ==
  \E p \in pairings, q \in pairings : p[1] = q[1] /\ p[2] # q[2]

\* The (source id, target id) pairs build_form_map comes across: one for
\* every source form whose display_name a target form carries.
FormPairings ==
  LET target_by_name == index_forms_by_name(target_forms)
  IN  {<<sync_to_int(source_forms[i].id),
         sync_to_int(target_by_name[source_forms[i].display_name.s].id)>> :
         i \in {j \in 1..Len(source_forms) :
                  source_forms[j].display_name.s \in DOMAIN target_by_name}}

\* The (source ID, target ID) pairs build_id_mapping comes across: one for
\* every field name both CSV exports carry.
FieldPairings ==
  LET source_map == load_field_map(source_csv, "source").map
      target_map == load_field_map(target_csv, "target").map
  IN  {<<source_map[i].v, Lookup(target_map, source_map[i].k)>> :
         i \in {j \in 1..Len(source_map) : HasKey(target_map, source_map[j].k)}}

\* C12: build_form_map and build_id_mapping never return a map when two of
\* the pairings they came across give one source ID two different target
\* IDs: they raise instead of letting the later pairing overwrite the
\* earlier one.
C12_BuildersRaiseOnConflict ==
  /\ (script = "sync" /\ pc = "done") => ~Conflict(FormPairings)
  /\ (script = "fields" /\ pc = "done") => ~Conflict(FieldPairings)

(***************************************************************************)
(* A form whose target question list is a reordering of the source list:   *)
(* source questions 1..n, target question 100 + k the copy of source       *)
(* question k, the target form listing the copies in any order; the banks  *)
(* may hold one more question and its copy that no form lists.             *)
(***************************************************************************)
ReorderLen == 3   \* question IDs of the reordered form

LabelB == <<"B">>

QB0 == Question(LabelB, "text", 0)

QBC0 == Question(LabelB, "choice", 0)

ReorderShapes == {QA0, QA1, QC0, QB0, QBC0}

Reorderings(n) == {p \in [1..n -> 1..n] : Injective(p)}

InitReorder ==
  /\ pc = "build"
  /\ script = "dep"
  /\ \E n \in 1..ReorderLen, extra \in 0..1 :
       /\ source_questions \in [1..(n + extra) -> ReorderShapes]
       /\ source_forms = <<Form("F", [i \in 1..n |-> i])>>
       /\ \E p \in Reorderings(n) :
            target_forms = <<Form("F", [i \in 1..n |-> 100 + p[i]])>>
  /\ target_questions =
       [t \in {100 + s : s \in DOMAIN source_questions} |->
          source_questions[t - 100]]
  /\ target_order = Ascending(DOMAIN target_questions)
  /\ question_map = EmptyMap
  /\ used_target_ids = {}
  /\ unresolved = <<>>
  /\ form_i = 1
  /\ index = 0
  /\ sig_queue = <<>>
  /\ error = NoError
  /\ RwIdle
  /\ SideIdle

\* The steps these inputs can take: every form has a target, no source ID
\* repeats, and every bucket of the sweep has as many targets as sources.
NextReorder ==
  \/ DepEnterForm
  \/ DepQuestionMap
  \/ DepQuestionError
  \/ BeginExtend
  \/ ExtendPair

SpecReorder == InitReorder /\ [][NextReorder]_vars

(***************************************************************************)
(* Claims about reordered and aligned forms                                *)
(***************************************************************************)
LooseSignature(question) == <<question.label, question.question_type>>

\* The source questions have pairwise distinct full signatures and pairwise
\* distinct (label, question_type) pairs.
PairwiseDistinct ==
  \A a, b \in DOMAIN source_questions :
    a # b =>
      /\ dep_sanitize_question(source_questions[a])
           # dep_sanitize_question(source_questions[b])
      /\ LooseSignature(source_questions[a]) # LooseSignature(source_questions[b])

\* C13: when the target question list is a reordering of the source list and
\* the questions have pairwise distinct full signatures and pairwise distinct
\* (label, question_type) pairs, build_question_map of the dependency updater
\* followed by extend_question_map_with_signatures raises no error and maps
\* every source question to the target question of the same full signature.
C13_ReorderedFormMappedBySignature ==
  PairwiseDistinct =>
    /\ pc # "error"
    /\ pc = "done" =>
         /\ unresolved = <<>>
         /\ \A s \in DOMAIN source_questions :
              /\ s \in DOMAIN question_map
              /\ question_map[s] \in DOMAIN target_questions
              /\ dep_sanitize_question(target_questions[question_map[s]])
                   = dep_sanitize_question(source_questions[s])

\* A finished run on the form [1, 2, 3] against [103, 101, 102] with a fourth
\* question in the banks only.
C13_Witness ==
  /\ pc = "done" /\ script = "dep" /\ PairwiseDistinct
  /\ Len(source_forms) = 1 /\ Len(target_forms) = 1
  /\ source_forms[1].question_ids = <<1, 2, 3>>
  /\ target_forms[1].question_ids = <<103, 101, 102>>
  /\ question_map = (1 :> 101) @@ (2 :> 102) @@ (3 :> 103) @@ (4 :> 104)

FormSourceIds(f) == source_forms[f].question_ids

FormTargetIds(f) == TargetFormByName(source_forms[f].display_name).question_ids

\* Source form f has a target form of its name, the two question lists are
\* equally long, and at every position the two questions are in their banks
\* with equal full signatures.
Aligned(f) ==
  /\ HasTargetForm(source_forms[f].display_name)
  /\ Len(FormSourceIds(f)) = Len(FormTargetIds(f))
  /\ \A i \in 1..Len(FormSourceIds(f)) :
       /\ FormSourceIds(f)[i] \in DOMAIN source_questions
       /\ FullMatch(FormTargetIds(f)[i], FormSourceIds(f)[i])

\* No form before f gave the map an entry: nothing is mapped or consumed
\* when the loop reaches f.
NothingBefore(f) ==
  \A g \in 1..(f - 1) :
    \/ ~HasTargetForm(source_forms[g].display_name)
    \/ FormSourceIds(g) = <<>>

\* The positions of form f the loop has dealt with.
Processed(f) ==
  IF form_i > f THEN 1..Len(FormSourceIds(f))
  ELSE IF form_i = f THEN 1..(index - 1)
  ELSE {}

MappedByPosition(f) ==
  /\ pc = "error" => form_i # f
  /\ \A i \in Processed(f) :
       /\ FormSourceIds(f)[i] \in DOMAIN question_map
       /\ question_map[FormSourceIds(f)[i]] = FormTargetIds(f)[i]

\* C14 as stated: for a name-matched form pair with equally long lists and
\* equal full signatures at every position, nothing being mapped or consumed
\* beforehand, build_question_map of the dependency updater maps the i-th
\* source ID to the i-th target ID for every i.
C14_AlignedFormMappedByPosition ==
  script = "dep" =>
    \A f \in 1..Len(source_forms) :
      (Aligned(f) /\ NothingBefore(f)) => MappedByPosition(f)

\* C14 amended: the same, for lists in which no ID occurs twice.
C14_AlignedDistinctIdsMappedByPosition ==
  script = "dep" =>
    \A f \in 1..Len(source_forms) :
      (/\ Aligned(f) /\ NothingBefore(f)
       /\ Injective(FormSourceIds(f)) /\ Injective(FormTargetIds(f)))
        => MappedByPosition(f)

\* A finished run over an aligned form of two different questions.
C14_Witness ==
  /\ pc = "done" /\ script = "dep"
  /\ Len(source_forms) = 1 /\ Aligned(1)
  /\ FormSourceIds(1) = <<1, 2>> /\ Injective(FormTargetIds(1))
  /\ question_map[1] = FormTargetIds(1)[1]
  /\ question_map[2] = FormTargetIds(1)[2]

(***************************************************************************)
(* More claims about the tree rewriters                                    *)
(***************************************************************************)
\* What rewriting the placeholders alone makes of a string: the digits of
\* every {{...<N>...}} with N a key of the map replaced and counted once.
PlaceholdersRewritten(value) ==
  replace_embedded_template_ids(value, question_map, known_ids, NoAcc)

\* C15: on a string that is not all digits, the dependency updater's
\* replace_string_value rewrites exactly the digits N of every placeholder
\* {{...<N>...}} whose N is a key of the map, counts each once under
\* (N, mapped value), and leaves every other character, other digits
\* included, as it is.
C15_PlaceholderDigitsOnly ==
  (pc = "rq_done" /\ obj.t = "str" /\ ~isdigit(obj.s)) =>
    /\ out.err = "none"
    /\ out.val = JStr(PlaceholdersRewritten(obj.s).val)
    /\ out.stats = PlaceholdersRewritten(obj.s).acc.stats

(***************************************************************************)
(* dependency_question_id_updater.main from the two rewrites on: the       *)
(* target forms (obj, out) and the target question bank are rewritten, the *)
(* missing IDs of both are put together, and the two files are written     *)
(* unless IDs are missing or the run is a dry run.                         *)
(***************************************************************************)
Rewrite(document) ==
  Returned(replace_question_ids(document, question_map, known_ids, NoAcc))

\* The exception replace_question_ids let through.
RewriteError(err) ==
  Raise(err,
        IF err = "ValueError" THEN "invalid literal for int()"
        ELSE "conflicting values",
        0, <<>>)

\* updated_forms = replace_question_ids(target_forms, question_map, ...)
MainRewriteForms ==
  /\ pc = "main_forms"
  /\ out' = Rewrite(obj)
  /\ IF out'.err = "none"
     THEN pc' = "main_questions" /\ error' = error
     ELSE pc' = "error" /\ error' = RewriteError(out'.err)
  /\ UNCHANGED <<question_map, obj, form_map, known_ids, workflow_text, write,
                 inputVars, sideVars, used_target_ids, unresolved, form_i,
                 index, sig_queue>>

\* updated_questions = replace_question_ids(target_questions_list, ...)
MainRewriteQuestions ==
  /\ pc = "main_questions"
  /\ question_out' = Rewrite(target_questions_list)
  /\ IF question_out'.err = "none"
     THEN pc' = "main_missing" /\ error' = error
     ELSE pc' = "error" /\ error' = RewriteError(question_out'.err)
  /\ UNCHANGED <<question_map, rwVars, inputVars, fieldVars,
                 target_questions_list, dry_run, updated_forms_file,
                 updated_questions_file, used_target_ids, unresolved, form_i,
                 index, sig_queue>>

missing_ids == out.missing \cup question_out.missing

\* if missing_ids: raise DependencyUpdateError(...)
MainMissingError ==
  /\ pc = "main_missing"
  /\ missing_ids # {}
  /\ error' = Raise("DependencyUpdateError", "missing", 0,
                    Ascending(missing_ids))
  /\ pc' = "error"
  /\ UNCHANGED <<question_map, rwVars, inputVars, sideVars, used_target_ids,
                 unresolved, form_i, index, sig_queue>>

\* write_json: path.write_text(json.dumps(data, indent=2, ensure_ascii=False))
write_json(data) == [written |-> TRUE, text |-> dumps(data, 0)]

\* if not args.dry_run: write_json(...); write_json(...)
MainWrite ==
  /\ pc = "main_missing"
  /\ missing_ids = {}
  /\ ~dry_run
  /\ updated_forms_file' = write_json(out.val)
  /\ updated_questions_file' = write_json(question_out.val)
  /\ pc' = "done"
  /\ UNCHANGED <<question_map, rwVars, inputVars, fieldVars,
                 target_questions_list, dry_run, question_out, mapVars>>

\* else: print("Dry run: no files written.")
MainDryRun ==
  /\ pc = "main_missing"
  /\ missing_ids = {}
  /\ dry_run
  /\ pc' = "done"
  /\ UNCHANGED <<question_map, rwVars, inputVars, sideVars, mapVars>>

MaxMainItems == 2   \* items of the two documents main rewrites

\* What the documents are put together from: a numeric reference, an ID held
\* as a string, a validation regex, and an object whose keys "1" and "7" have
\* different values.
MainItems ==
  {JInt(1), JStr(<<"2">>), JStr(<<"\\", "d">>),
   JDict(<<[k |-> <<"1">>, v |-> JNull], [k |-> <<"7">>, v |-> JBool(TRUE)]>>)}

MainDocs == {JList(q) : q \in SeqsUpTo(MainItems, MaxMainItems)}

InitMain ==
  /\ pc = "main_forms"
  /\ script = "dep"
  /\ obj \in MainDocs
  /\ target_questions_list \in MainDocs
  /\ question_map \in QuestionMaps
  /\ known_ids \in KnownSets
  /\ dry_run \in BOOLEAN
  /\ form_map = EmptyMap /\ out = NoOut /\ FileIdle
  /\ question_out = NoOut
  /\ updated_forms_file = NotWritten /\ updated_questions_file = NotWritten
  /\ source_forms = <<>> /\ target_forms = <<>>
  /\ source_questions = EmptyMap /\ target_questions = EmptyMap
  /\ target_order = <<>>
  /\ used_target_ids = {} /\ unresolved = <<>>
  /\ form_i = 0 /\ index = 0 /\ sig_queue = <<>>
  /\ error = NoError
  /\ FieldIdle

NextMain ==
  \/ MainRewriteForms
  \/ MainRewriteQuestions
  \/ MainMissingError
  \/ MainWrite
  \/ MainDryRun

SpecMain == InitMain /\ [][NextMain]_vars

\* C16: whenever the rewriting of the target forms or of the target question
\* bank has recorded a missing ID, neither updated file is written and main
\* ends by raising DependencyUpdateError.
C16_MissingIdsRaiseAndNothingIsWritten ==
  (out.missing # {} \/ question_out.missing # {}) =>
    /\ ~updated_forms_file.written
    /\ ~updated_questions_file.written
    /\ pc # "done"
    /\ pc = "error" => error.type = "DependencyUpdateError"

(***************************************************************************)
(* The two tree rewriters side by side: a run of replace_question_ids or a *)
(* run of replace_ids.                                                     *)
(***************************************************************************)
InitRewriters == InitRQ \/ InitRI

NextRewriters ==
  \/ RewriteQuestionIds
  \/ RewriteIds

SpecRewriters == InitRewriters /\ [][NextRewriters]_vars

\* No target ID of a map is a key of a map.
TargetsAreNoKeys ==
  (Range(question_map) \cup Range(form_map))
    \cap (DOMAIN question_map \cup DOMAIN form_map) = {}

\* C17: when no target ID is a key of any map, a tree rewriter applied to
\* its own output returns that output unchanged and counts no replacement:
\* replace_question_ids on what it returned without an exception, and
\* replace_ids on what it returned.
C17_RewritingTwiceChangesNothing ==
  /\ (pc = "rq_done" /\ out.err = "none" /\ TargetsAreNoKeys) =>
       LET again == replace_question_ids(out.val, question_map, known_ids, NoAcc)
       IN  /\ again.val = out.val
           /\ again.acc.stats = EmptyMap
           /\ again.acc.err = "none"
  /\ (pc = "ri_done" /\ TargetsAreNoKeys) =>
       LET again == replace_ids(out.val, form_map, question_map, EmptyMap)
       IN  again.val = out.val /\ again.stats = EmptyMap

\* A run of replace_question_ids that replaced something inside an object,
\* under maps whose targets are not keys.
C17_Witness ==
  /\ pc = "rq_done" /\ out.err = "none" /\ TargetsAreNoKeys
  /\ obj.t = "dict"
  /\ out.stats # EmptyMap
  /\ out.val # obj

(***************************************************************************)
(* Claims about extend_question_map_with_signatures                        *)
(***************************************************************************)
\* The number of elements of S that are at most x: 1 for the smallest.
Rank(x, S) == Cardinality({y \in S : y <= x})

\* The sweep is at a bucket of n >= 1 unmapped sources with n targets free.
EqualBucket ==
  /\ pc = "extend"
  /\ Len(bucket.src_ids) >= 1
  /\ Len(bucket.src_ids) = Len(available_targets)

\* C18: a bucket with n >= 1 unmapped source questions and exactly n available
\* targets maps the i-th smallest source ID to the i-th smallest available
\* target ID.
C18_EqualBucketPairedInAscendingOrder ==
  [][EqualBucket =>
       \A s \in ToSet(bucket.src_ids) :
         /\ s \in DOMAIN question_map'
         /\ question_map'[s] \in ToSet(available_targets)
         /\ Rank(question_map'[s], ToSet(available_targets))
              = Rank(s, ToSet(bucket.src_ids))]_vars

\* Sources 1 and 2 paired by the sweep with 12 and 13, which the target bank
\* lists in descending order.
C18_Witness ==
  /\ pc = "done"
  /\ source_forms = <<>>
  /\ target_order = <<13, 12>>
  /\ question_map = (1 :> 12) @@ (2 :> 13)
  /\ unresolved = <<>>

\* The sweep is at a bucket of two or more unmapped sources with another
\* number of targets free.
UnequalBucket ==
  /\ pc = "extend"
  /\ Len(bucket.src_ids) >= 2
  /\ Len(bucket.src_ids) # Len(available_targets)

\* C19: a bucket with two or more unmapped source questions and a different
\* number of available targets adds none of them to question_map and puts
\* all of them in unresolved.
C19_UnequalBucketUnresolved ==
  [][UnequalBucket =>
       /\ question_map' = question_map
       /\ unresolved' = unresolved \o bucket.src_ids]_vars

\* The targets of the signature of source s that no mapping uses.
FreeTargetsLike(s) ==
  {t \in DOMAIN target_questions :
     /\ TargetSignature(t) = SourceSignature(s)
     /\ t \notin Range(question_map)}

\* The sweep returned sources 1 and 2 of one signature as unresolved although
\* targets of that signature were free (one, or three).
C19_Witness ==
  /\ pc = "done"
  /\ unresolved = <<1, 2>>
  /\ 2 \in DOMAIN source_questions
  /\ SourceSignature(1) = SourceSignature(2)
  /\ question_map = EmptyMap
  /\ Cardinality(FreeTargetsLike(1)) \in {1, 3}

\* C20: extend_question_map_with_signatures never raises for unmatched
\* questions (an exception comes from build_question_map, before the sweep
\* has begun), and when it has returned every source bank ID is a key of
\* question_map or is in unresolved, and never both.
C20_MappedOrUnresolvedNeverBoth ==
  /\ pc = "error" =>
       /\ form_i <= Len(source_forms)
       /\ sig_queue = <<>> /\ unresolved = <<>>
  /\ pc = "done" =>
       \A s \in DOMAIN source_questions :
         (s \in DOMAIN question_map) # (s \in ToSet(unresolved))

\* The sweep returned with one source question mapped and the other one
\* unresolved.
C20_Witness ==
  /\ pc = "done"
  /\ DOMAIN source_questions = {1, 2}
  /\ \E s \in {1, 2} :
       /\ s \in DOMAIN question_map /\ s \notin ToSet(unresolved)
       /\ unresolved = <<3 - s>> /\ (3 - s) \notin DOMAIN question_map


(***************************************************************************)
(* Claims about the form map and the validation of the form libraries      *)
(***************************************************************************)
\* The source forms a target form shares its display_name with.
NameMatched ==
  {i \in 1..Len(source_forms) :
     \E j \in 1..Len(target_forms) :
       target_forms[j].display_name = source_forms[i].display_name}

\* The last target form, in collection order, of source form i's name.
LastTargetNamed(i) ==
  target_forms[CHOOSE j \in 1..Len(target_forms) :
     /\ target_forms[j].display_name = source_forms[i].display_name
     /\ \A j2 \in (j + 1)..Len(target_forms) :
          target_forms[j2].display_name # source_forms[i].display_name]

\* Every name-matched source form has its id mapped to the id of the last
\* target form of its name.
MatchedFormsMapped ==
  \A i \in NameMatched :
    /\ sync_to_int(source_forms[i].id) \in DOMAIN form_map
    /\ form_map[sync_to_int(source_forms[i].id)]
         = sync_to_int(LastTargetNamed(i).id)

\* C21: when build_form_map returns, the id of every source form that
\* shares its display_name with a target form is mapped to the id of the
\* last target form of that name, and form_map has no other entry: a source
\* form without a name match adds nothing and raises nothing.
C21_MatchedFormsMappedToLastTarget ==
  (script = "sync" /\ pc = "done") =>
    /\ MatchedFormsMapped
    /\ \A k \in DOMAIN form_map :
         \E i \in NameMatched : sync_to_int(source_forms[i].id) = k


\* The entries of a form library that are not an object or carry no
\* non-empty string display_name, by position (from 1).
BadEntries(forms) ==
  {i \in 1..Len(forms) :
     \/ ~forms[i].object
     \/ forms[i].display_name.t # "str"
     \/ forms[i].display_name.s = <<>>}

Lowest(S) == CHOOSE i \in S : \A j \in S : i <= j

\* C22: a call of build_form_map or of build_question_map of the
\* form-and-question updater on libraries with an entry that is not an
\* object or lacks a non-empty string display_name raises SyncError naming
\* the collection (source before target) and the index, counted from 0, of
\* the first such entry, with no entry in form_map or question_map; on
\* libraries without such an entry neither raises that error.
C22_FirstBadEntryRaisesBeforeMapping ==
  [][(BuildFormMap \/ SyncValidateForms) =>
       IF BadEntries(source_forms) # {}
       THEN /\ pc' = "error" /\ error'.type = "SyncError"
            /\ error'.context = "Source forms library"
            /\ error'.index = Lowest(BadEntries(source_forms)) - 1
            /\ form_map' = EmptyMap /\ question_map' = EmptyMap
       ELSE IF BadEntries(target_forms) # {}
       THEN /\ pc' = "error" /\ error'.type = "SyncError"
            /\ error'.context = "Target forms library"
            /\ error'.index = Lowest(BadEntries(target_forms)) - 1
            /\ form_map' = EmptyMap /\ question_map' = EmptyMap
       ELSE pc' # "error"]_vars

\* Both entries of the target library are at fault and the source library,
\* of two entries, is sound: the error names index 0 of the target library.
C22_Witness ==
  /\ pc = "error" /\ error.type = "SyncError"
  /\ Len(source_forms) = 2 /\ BadEntries(source_forms) = {}
  /\ BadEntries(target_forms) = {1, 2}
  /\ error.context = "Target forms library" /\ error.index = 0


(***************************************************************************)
(* Claims about the pairs build_question_map of the dependency updater     *)
(* adds                                                                    *)
(***************************************************************************)
\* The step is one of build_question_map of the dependency updater and adds
\* the pair (s, t) to question_map.
DepAdds(s, t) ==
  /\ script = "dep" /\ pc = "build"
  /\ s \notin DOMAIN question_map
  /\ s \in DOMAIN question_map' /\ question_map'[s] = t

\* Both questions are in their banks and are equal but for their ids.
SameFull(s, t) ==
  /\ s \in DOMAIN source_questions /\ t \in DOMAIN target_questions
  /\ source_questions[s] = target_questions[t]

\* Both questions are in their banks with equal label and question_type.
SameLoose(s, t) ==
  /\ s \in DOMAIN source_questions /\ t \in DOMAIN target_questions
  /\ source_questions[s].label = target_questions[t].label
  /\ source_questions[s].question_type = target_questions[t].question_type

\* C23 as stated: every pair (s, t) that build_question_map of the
\* dependency updater adds has t among the question IDs of the matched
\* target form, t not consumed by another mapping, and the full signatures
\* of s and t equal or their (label, question_type) pairs equal.
C23_AddedPairsMatchBySignature ==
  [][\A s \in SourceIds, t \in TargetIds :
       DepAdds(s, t) =>
         /\ t \in ToSet(tgt_ids)
         /\ t \notin Range(question_map)
         /\ SameFull(s, t) \/ SameLoose(s, t)]_vars

\* C23, amended: every pair (s, t) that build_question_map of the
\* dependency updater adds has t among the question IDs of the matched
\* target form and not consumed by another mapping; the full signatures or
\* the (label, question_type) pairs of s and t are equal, or s has no
\* question in the source bank and t stands at s's position of the target
\* list.
C23_AddedPairsMatchOrSourceUnknown ==
  [][\A s \in SourceIds, t \in TargetIds :
       DepAdds(s, t) =>
         /\ t \in ToSet(tgt_ids)
         /\ t \notin Range(question_map)
         /\ \/ SameFull(s, t)
            \/ SameLoose(s, t)
            \/ s \notin DOMAIN source_questions /\ t = tgt_ids[index]]_vars

\* Source question 1 went to a target equal to it in label and
\* question_type only, and source ID 2, which the source bank does not
\* hold, to the target at its position.
C23_Witness ==
  /\ script = "dep" /\ pc = "done"
  /\ DOMAIN question_map = {1, 2}
  /\ SameLoose(1, question_map[1]) /\ ~SameFull(1, question_map[1])
  /\ 2 \notin DOMAIN source_questions


(***************************************************************************)
(* Claims about the keys of the objects replace_question_ids rebuilds      *)
(***************************************************************************)
\* Every object of the result b has as many entries as the object of the
\* input a it was built from.
RECURSIVE EntryCountsKept(_, _)
EntryCountsKept(a, b) ==
  IF a.t = "dict"
  THEN /\ Len(b.entries) = Len(a.entries)
       /\ \A i \in 1..Len(a.entries) :
            EntryCountsKept(a.entries[i].v, b.entries[i].v)
  ELSE IF a.t = "list"
  THEN \A i \in 1..Len(a.items) : EntryCountsKept(a.items[i], b.items[i])
  ELSE TRUE

\* Every object of the result b has one entry for every key that a key of
\* the object of the input a is rewritten to.
RECURSIVE OneEntryPerNewKey(_, _)
OneEntryPerNewKey(a, b) ==
  IF a.t = "dict"
  THEN /\ Len(b.entries)
            = Cardinality({NewKey(a.entries[i].k) : i \in 1..Len(a.entries)})
       /\ \A i \in 1..Len(a.entries) :
            /\ HasKey(b.entries, NewKey(a.entries[i].k))
            /\ OneEntryPerNewKey(a.entries[i].v,
                                 Lookup(b.entries, NewKey(a.entries[i].k)))
  ELSE IF a.t = "list"
  THEN \A i \in 1..Len(a.items) : OneEntryPerNewKey(a.items[i], b.items[i])
  ELSE TRUE

\* C24 as stated: when replace_question_ids returns without error, every
\* object of the result has the number of entries of the object of the
\* input it stands for.
C24_EntryCountsKept ==
  (pc = "rq_done" /\ out.err = "none") => EntryCountsKept(obj, out.val)

\* C24, amended: when replace_question_ids returns without error, every
\* object of the result has exactly one entry for each key that keys of the
\* input object are rewritten to; it has the input's number of entries when
\* no two keys of the object are rewritten to the same key, and fewer when
\* two are: their entries are merged into one.
C24_OneEntryPerRewrittenKey ==
  (pc = "rq_done" /\ out.err = "none") => OneEntryPerNewKey(obj, out.val)

\* An object of two entries came back as an object of one entry under the
\* key both keys are rewritten to.
C24_Witness ==
  /\ pc = "rq_done" /\ out.err = "none" /\ obj.t = "dict"
  /\ Len(obj.entries) = 2 /\ Len(out.val.entries) = 1
  /\ NewKey(obj.entries[1].k) = out.val.entries[1].k
  /\ NewKey(obj.entries[2].k) = out.val.entries[1].k
  /\ obj.entries[2].k # out.val.entries[1].k


\* Two entries whose keys are rewritten to one key and whose rewritten
\* values are different JSON values.
CollidingEntries(entries) ==
  \E i, j \in 1..Len(entries) :
    /\ i < j
    /\ NewKey(entries[i].k) = NewKey(entries[j].k)
    /\ Rewritten(entries[i].v) # Rewritten(entries[j].v)

\* C25: replace_question_ids on an object with two keys that are rewritten
\* to the same key and whose rewritten values differ raises
\* DependencyUpdateError: it returns no object in which one of the two
\* values has taken the place of the other.
C25_DifferingValuesRaise ==
  (pc = "rq_done" /\ obj.t = "dict" /\ CollidingEntries(obj.entries))
    => out.err = "DependencyUpdateError"


(***************************************************************************)
(* Claims about sync_ids and the workflow file                             *)
(***************************************************************************)
\* The workflow files that list the numbers 12 and 120 and nothing else.
MixedNumberItems ==
  {items \in SeqsUpTo({<<"1", "2">>, <<"1", "2", "0">>}, MaxItems) :
     /\ \E i \in 1..Len(items) : items[i] = <<"1", "2">>
     /\ \E i \in 1..Len(items) : items[i] = <<"1", "2", "0">>}

\* The file with every item that is the number 12 spelled as the number 7.
WholeNumbersReplaced(items) ==
  <<"[">> \o Joined([i \in 1..Len(items) |->
                       IF items[i] = <<"1", "2">> THEN <<"7">> ELSE items[i]])
         \o <<"]">>

\* C26: sync_ids with write=True on a workflow file that holds the mapped
\* ID 12 (mapped to 7) and the longer number 120 (not mapped) beside it
\* ends without an error, and the file then holds 7 where 12 stood and 120
\* where 120 stood.
C26_LongerNumberLeftUnchanged ==
  [][\A items \in MixedNumberItems :
       (/\ pc = "replaced" /\ write
        /\ workflow_text = <<"[">> \o Joined(items) \o <<"]">>
        /\ question_map = (12 :> 7) /\ form_map = EmptyMap)
       => /\ pc' = "done"
          /\ workflow_text' = WholeNumbersReplaced(items)]_vars


(***************************************************************************)
(* SpecSync: a whole run of sync_ids.  build_form_map, build_question_map  *)
(* with its validation, extend_question_map_with_signatures, the check of  *)
(* unresolved, replace_ids and the text pass with the write, each as       *)
(* modelled above, in the order of lines 260-295.                          *)
(***************************************************************************)
\* form_map = build_form_map(source_forms, target_forms)
SyncBuildFormMap ==
  /\ pc = "sync_ids_start"
  /\ LET built == build_form_map(source_forms, target_forms)
     IN  /\ form_map' = built.form_map
         /\ error' = built.error
         /\ pc' = IF built.error = NoError THEN "build_question_map"
                  ELSE "error"
  /\ UNCHANGED <<question_map, obj, known_ids, out, workflow_text, write,
                 inputVars, sideVars, used_target_ids, unresolved, form_i,
                 index, sig_queue>>

\* if unresolved: raise SyncError("Unable to find target questions ...")
\* The extension has returned and replace_ids has not been called yet.
SyncUnresolvedCheck ==
  /\ pc = "done" /\ out = NoOut
  /\ IF unresolved # <<>>
     THEN /\ error' = Raise("SyncError", "unresolved", 0, unresolved)
          /\ pc' = "error"
     ELSE /\ pc' = "sync_ids"
          /\ UNCHANGED error
  /\ UNCHANGED <<question_map, rwVars, inputVars, sideVars, used_target_ids,
                 unresolved, form_i, index, sig_queue>>

\* A form of the libraries of sync_ids: what build_form_map and what
\* build_question_map read of it.
SyncForm(name, id, question_ids) ==
  [object |-> TRUE, display_name |-> JStr(<<name>>), id |-> JInt(id),
   question_ids |-> question_ids]

\* The runs: <<source forms, target forms, source bank, target bank>>.
SyncCases ==
  LET F == <<SyncForm("F", 7, <<12>>)>>
      FT == <<SyncForm("F", 9, <<7>>)>>
  IN  { \* question 12 mapped by position, form 7 by name
        <<F, FT, 12 :> QA0, 7 :> QA0>>,
        \* question 120 is in the banks only: one source, two free targets
        <<F, FT, (12 :> QA0) @@ (120 :> QA1),
          (7 :> QA0) @@ (345 :> QA1) @@ (346 :> QA1)>>,
        \* no forms: both questions are paired by the sweep
        <<<<>>, <<>>, (12 :> QA0) @@ (120 :> QA0), (7 :> QA0) @@ (345 :> QA0)>>,
        \* question 120 has no target of its signature: unresolved
        <<F, FT, (12 :> QA0) @@ (120 :> QC0), 7 :> QA0>>,
        \* an entry of the source library is not an object
        <<<<NonObject>>, FT, 12 :> QA0, 7 :> QA0>>,
        \* a target form without display_name
        <<F, <<LibraryEntry(JNull, JInt(9))>>, 12 :> QA0, 7 :> QA0>>,
        \* lists of different lengths
        <<<<SyncForm("F", 7, <<12, 120>>)>>, FT, 12 :> QA0, 7 :> QA0>>,
        \* question 12 at the position of 7 and then of 345
        <<<<SyncForm("F", 7, <<12>>), SyncForm("G", 8, <<12>>)>>,
          <<SyncForm("F", 9, <<7>>), SyncForm("G", 9, <<345>>)>>,
          12 :> QA0, (7 :> QA0) @@ (345 :> QA0)>>,
        \* the questions at one position differ in question_type
        <<F, FT, 12 :> QA0, 7 :> QC0>>,
        \* the source form has no target form of its name
        <<<<SyncForm("G", 7, <<12>>)>>, FT, 12 :> QA0, 7 :> QA0>> }

InitSync ==
  /\ pc = "sync_ids_start"
  /\ script = "sync"
  /\ \E case \in SyncCases :
       /\ source_forms = case[1] /\ target_forms = case[2]
       /\ source_questions = case[3] /\ target_questions = case[4]
  /\ target_order = Ascending(DOMAIN target_questions)
  /\ workflow_text \in WorkflowTexts
  /\ write \in BOOLEAN
  /\ obj = loads(workflow_text).val
  /\ question_map = EmptyMap /\ form_map = EmptyMap
  /\ known_ids = {}
  /\ out = NoOut
  /\ used_target_ids = {} /\ unresolved = <<>>
  /\ form_i = 0 /\ index = 0 /\ sig_queue = <<>>
  /\ error = NoError
  /\ SideIdle

NextSync ==
  \/ SyncBuildFormMap
  \/ SyncValidateForms
  \/ SyncSkipForm
  \/ SyncLengthError
  \/ SyncEnterForm
  \/ SyncQuestionConflict
  \/ SyncQuestionMismatch
  \/ SyncQuestionMap
  \/ BeginExtend
  \/ ExtendUnresolved
  \/ ExtendPair
  \/ ExtendSingle
  \/ SyncUnresolvedCheck
  \/ SyncReplaceIds
  \/ SyncDryRun
  \/ SyncWriteDumped
  \/ SyncCountError
  \/ SyncDecodeError
  \/ SyncDivergedError
  \/ SyncWritePatched

SpecSync == InitSync /\ [][NextSync]_vars


\* C27: in a run of sync_ids the content of the target workflow file
\* changes in one step only, the write that ends a run with write=True
\* after replace_ids, and no step follows it; no step that raises (in
\* build_form_map, in build_question_map, for unresolved source questions,
\* in the text pass) and no step of a run with write=False changes it.
C27_WorkflowFileWrittenLast ==
  [][/\ (pc' = "error" \/ ~write) => workflow_text' = workflow_text
     /\ workflow_text' # workflow_text =>
          /\ pc = "replaced" /\ pc' = "done"
          /\ unresolved = <<>> /\ error' = NoError
     /\ ~(pc = "done" /\ out # NoOut)
     /\ pc # "error"]_vars

\* A run with write=True on the file [12] stopped because the sweep left
\* source question 120 unresolved; question 12 was mapped before.
C27_Witness ==
  /\ pc = "error" /\ error.type = "SyncError" /\ error.what = "unresolved"
  /\ write /\ unresolved = <<120>>
  /\ question_map = (12 :> 7)
  /\ workflow_text = <<"[", "1", "2", "]">>


(***************************************************************************)
(* Claims about the question map of the dependency updater as a whole      *)
(***************************************************************************)
\* C28: the question_map of the dependency updater is injective in every
\* state of build_question_map and of extend_question_map_with_signatures,
\* and so when both have returned: no two source question IDs have the same
\* target question ID.
C28_QuestionMapInjective ==
  script = "dep" =>
    \A s1, s2 \in DOMAIN question_map :
      question_map[s1] = question_map[s2] => s1 = s2

\* Both functions have returned; question 1 was mapped in its form and
\* question 2, which no form lists, by the sweep, and the two targets are
\* equal but for their ids.
C28_Witness ==
  /\ script = "dep" /\ pc = "done" /\ unresolved = <<>>
  /\ DOMAIN question_map = {1, 2}
  /\ \E f \in 1..Len(source_forms) : 1 \in ToSet(source_forms[f].question_ids)
  /\ \A f \in 1..Len(source_forms) : 2 \notin ToSet(source_forms[f].question_ids)
  /\ question_map[1] # question_map[2]
  /\ target_questions[question_map[1]] = target_questions[question_map[2]]


\* The step of build_question_map of the dependency updater maps s to a
\* target t that equals it in label and question_type only, while the
\* matched target form lists a target that no mapping has consumed and
\* that equals s in every field.
LooseChosenOverFull(s, t) ==
  /\ DepAdds(s, t)
  /\ SameLoose(s, t) /\ ~SameFull(s, t)
  /\ \E t2 \in ToSet(tgt_ids) \ Range(question_map) : SameFull(s, t2)

\* C29 as stated: build_question_map of the dependency updater never maps
\* a source question to a target matching it by loose signature only while
\* the matched target form holds an unconsumed target of the source
\* question's full signature.
C29_FullMatchBeforeLooseMatch ==
  [][\A s \in SourceIds, t \in TargetIds : ~LooseChosenOverFull(s, t)]_vars

\* C29, amended: build_question_map of the dependency updater maps a
\* source question to a target matching it by loose signature only, while
\* the matched target form holds an unconsumed target of its full
\* signature, in one case only: the target is the one at the source
\* question's own position.  The searches over the whole list never do so.
C29_LooseOverFullOnlyAtSamePosition ==
  [][\A s \in SourceIds, t \in TargetIds :
       LooseChosenOverFull(s, t) => t = tgt_ids[index]]_vars

\* Question 1 is mapped to the target at its position, which differs from
\* it in a field other than label and question_type, and a target equal to
\* it in every field is listed after that one and is still free.
C29_Witness ==
  /\ script = "dep" /\ pc = "build"
  /\ 1 \in DOMAIN question_map
  /\ SameLoose(1, question_map[1]) /\ ~SameFull(1, question_map[1])
  /\ Len(source_forms) = 1 /\ Len(target_forms) = 1
  /\ source_forms[1].question_ids = <<1>>
  /\ target_forms[1].question_ids[1] = question_map[1]
  /\ \E t2 \in ToSet(target_forms[1].question_ids) \ Range(question_map) :
       SameFull(1, t2)


(***************************************************************************)
(* Claims about booleans in the documents of the two rewriters             *)
(***************************************************************************)
\* The document holds no number and no string: booleans only, in lists
\* and under keys that are no digit strings.
RECURSIVE OnlyBooleans(_)
OnlyBooleans(a) ==
  \/ a.t = "bool"
  \/ a.t = "list" /\ \A i \in 1..Len(a.items) : OnlyBooleans(a.items[i])
  \/ /\ a.t = "dict"
     /\ \A i \in 1..Len(a.entries) :
          ~isdigit(a.entries[i].k) /\ OnlyBooleans(a.entries[i].v)

\* C30: replace_ids and replace_question_ids return every boolean of a
\* document as it is, whatever the maps hold: a document of booleans comes
\* back unchanged with nothing counted, and a boolean item of a list stands
\* in the returned list at its place.
C30_BooleansUnchanged ==
  (pc \in {"rq_done", "ri_done"} /\ out.err = "none") =>
    /\ OnlyBooleans(obj) => out.val = obj /\ out.stats = EmptyMap
    /\ obj.t = "list" =>
         \A i \in 1..Len(obj.items) :
           obj.items[i].t = "bool" => out.val.items[i] = obj.items[i]

=============================================================================
